---- MODULE Spec2Model ----
(***************************************************************************)
(* JobTrackr: the Preparation page's folder tree and item list, the tag    *)
(* handlers of the draft forms, the pages' save and delete handlers, and   *)
(* the row store (tables, foreign keys, row-level-security policies) they  *)
(* talk to.                                                                *)
(***************************************************************************)
EXTENDS Integers, Sequences, FiniteSets, TLC

\* ---------------------------------------------------------------- bounds
MaxFolders == 3
\* Row identifiers the direct callers of the row store may name.
MaxDbFolders == 2
MaxDbItems == 1
MaxDbFlat == 1
\* Length of a typed tag, and number of tags on a draft.
MaxTagLen == 2
MaxTags == 3
\* Rows the Preparation page may create, and storage calls it may have pending.
MaxFolderRows == 2
MaxItemRows == 1
MaxInflight == 1
\* Things the user may do on the page while a storage call is pending.
MaxActsWhilePending == 0
\* Items in the collection the content pane filters.
MaxPaneItems == 3
\* Rows of jobs, stories and notes a page may create.
MaxFlatRows == 2

\* ------------------------------------------------------------- constants
\* parent_id: string | null.  Row identifiers are 1, 2, ...; NULL is none of them.
NULL == 0

VARIABLES
  folders,          \* Preparation: useState<PrepFolder[]>
  expandedFolders,  \* Preparation: useState<Set<string>>
  stack,            \* the call stack of buildFolderTree during one render
  built,            \* the FolderTreeNode objects the build has constructed
  rootFolders,      \* const rootFolders = buildFolderTree(null)
  pc                \* position of the render: "idle", "building", "done", "overflow"

VARIABLES
  db,               \* the row store: one set of rows per table
  tablesInUse,      \* the tables the direct callers of the row store work on
  lastCall          \* the last request made to the row store directly, and its answer

VARIABLES
  formData,         \* useState({ title, ..., tags }): the draft record of the open form
  tagInput,         \* useState(''): the text typed into the tag field
  timers            \* Notes: the setTimeout calls of the autosave effect not yet run or cleared

treeVars == <<folders, expandedFolders, stack, built, rootFolders, pc>>
dbVars == <<db, tablesInUse, lastCall>>
VARIABLES
  page,             \* the page that is mounted
  items,            \* the page's rows: items (Preparation), jobs, stories, notes
  isLoading,        \* useState(true)
  selectedFolderId, \* Preparation: useState<string | null>
  isModalOpen,      \* useState(false)
  modalMode,        \* Preparation: 'folder' | 'story' | 'note'
  editingFolder,    \* Preparation: useState<PrepFolder | null>
  editingItem,      \* editingItem (Preparation), editingJob (Dashboard)
  folderName,       \* Preparation: useState('')
  inflight,         \* the storage calls awaited by handlers, with what each handler closed over
  nextId,           \* gen_random_uuid(): the next fresh id of each table
  actsPending,      \* what the user has done since a storage call went out
  lastStep          \* what the last step was: the handler run, the toast shown, the confirm answer

formVars == <<formData, tagInput>>
prepVars == <<items, isLoading, selectedFolderId, isModalOpen, modalMode, editingFolder,
              editingItem, folderName>>
pageVars == <<page, prepVars, inflight, nextId, actsPending, lastStep>>
vars == <<treeVars, dbVars, formVars, timers, pageVars>>
exceptTree == <<dbVars, formVars, timers, pageVars>>
exceptDb == <<treeVars, formVars, timers, pageVars>>
exceptForm == <<treeVars, dbVars, timers, pageVars>>

\* ------------------------------------------------------- sequence helpers
Range(s) == {s[i] : i \in 1..Len(s)}

\* Array.prototype.map to the id of each element.
RECURSIVE Ids(_)
Ids(s) == IF s = <<>> THEN <<>> ELSE <<Head(s).id>> \o Ids(Tail(s))


\* -------------------------------------------------------------- text
Chars == {" ", "a"}
SeqsUpTo(S, n) == UNION {[1..k -> S] : k \in 0..n}

\* String.prototype.trim: white space off both ends.
RECURSIVE TrimStart(_)
TrimStart(t) == IF t # <<>> /\ Head(t) = " " THEN TrimStart(Tail(t)) ELSE t
RECURSIVE TrimEnd(_)
TrimEnd(t) ==
  IF t # <<>> /\ t[Len(t)] = " " THEN TrimEnd(SubSeq(t, 1, Len(t) - 1)) ELSE t
Trim(t) == TrimEnd(TrimStart(t))

\* Array.prototype.includes
Includes(list, x) == \E i \in 1..Len(list) : list[i] = x

\* The empty draft of a form: title: '', content: '', tags: [].
EmptyForm == [title |-> <<>>, content |-> <<>>, tags |-> <<>>]

\* ---------------------------------------------------------- the row store
\* auth.users: the identities the identity provider has issued.
Users == {"u", "v"}
Tables == {"profiles", "jobs", "stories", "notes", "prep_folders", "prep_items"}
FlatTables == {"jobs", "stories", "notes"}
ItemTypes == {"story", "note"}
EmptyDb == [t \in Tables |-> {}]
NoCall == [caller |-> "none", op |-> "none", table |-> "none", data |-> {}, error |-> FALSE]

\* The owner column of a table: profiles.id, user_id everywhere else.
OwnerOf(t, row) == IF t = "profiles" THEN row.id ELSE row.user_id

\* USING (auth.uid() = id) / USING (auth.uid() = user_id) of the SELECT, UPDATE and
\* DELETE policies of profiles, jobs, stories and notes.
BasePolicyUsing(t, op, caller, row) == caller = OwnerOf(t, row)
\* WITH CHECK (auth.uid() = id) / (auth.uid() = user_id) of their INSERT and UPDATE policies.
BasePolicyWithCheck(t, op, caller, row) == caller = OwnerOf(t, row)
\* USING (auth.uid() = user_id) of the policies of prep_folders and prep_items.
PrepPolicyUsing(t, op, caller, row) == caller = row.user_id
\* Policies of prep_folders and prep_items with no WITH CHECK on the new row.
PrepPolicyWithoutCheck(t, op, caller, row) == TRUE
\* WITH CHECK (auth.uid() = user_id) of the policies of prep_folders and prep_items.
PrepPolicyWithCheck(t, op, caller, row) == caller = row.user_id

PolicyUsing(t, op, caller, row) ==
  IF t \in {"prep_folders", "prep_items"}
  THEN PrepPolicyUsing(t, op, caller, row)
  ELSE BasePolicyUsing(t, op, caller, row)
PolicyWithCheck(t, op, caller, row) ==
  IF t \in {"prep_folders", "prep_items"}
  THEN PrepPolicyWithCheck(t, op, caller, row)
  ELSE BasePolicyWithCheck(t, op, caller, row)

RowIds(d, t) == {r.id : r \in d[t]}

\* A referential check of the owner column only.
ForeignKeysOwnerOnly(d, t, row) ==
  IF t = "profiles" THEN row.id \in Users ELSE row.user_id \in RowIds(d, "profiles")

\* REFERENCES ... : the foreign keys of a row hold in d.  The referential check
\* looks at the referenced table itself, not through the caller's policies.
ForeignKeysHold(d, t, row) ==
  CASE t = "profiles" -> row.id \in Users
    [] t \in FlatTables -> row.user_id \in RowIds(d, "profiles")
    [] t = "prep_folders" ->
         /\ row.user_id \in RowIds(d, "profiles")
         /\ row.parent_id = NULL \/ row.parent_id \in RowIds(d, "prep_folders") \cup {row.id}
    [] t = "prep_items" ->
         /\ row.user_id \in RowIds(d, "profiles")
         /\ row.folder_id \in RowIds(d, "prep_folders")

\* CHECK (type IN ('story', 'note'))
ChecksHold(t, row) == t = "prep_items" => row.type \in ItemTypes

\* A delete that follows no parent_id reference.
FolderCascadeNone(d, dead) == dead
\* ON DELETE CASCADE along prep_folders.parent_id: the folders that go with dead.
RECURSIVE FolderCascade(_, _)
FolderCascade(d, dead) ==
  LET more == {f.id : f \in {g \in d.prep_folders : g.parent_id \in dead}} IN
  IF more \subseteq dead THEN dead ELSE FolderCascade(d, dead \cup more)

\* The store after the rows `gone` of table t are deleted, with every ON DELETE
\* CASCADE that follows: user_id -> profiles, parent_id -> prep_folders,
\* folder_id -> prep_folders.
DeleteCascade(d, t, gone) ==
  LET deadProfiles == IF t = "profiles" THEN {r.id : r \in gone} ELSE {}
      direct(tt) == IF tt = t THEN gone ELSE {}
      ownerDead(tt) == {r \in d[tt] : r.user_id \in deadProfiles}
      deadFolders ==
        FolderCascade(d, {r.id : r \in direct("prep_folders") \cup ownerDead("prep_folders")})
  IN [tt \in Tables |->
       CASE tt = "profiles" -> d[tt] \ gone
         [] tt \in FlatTables -> d[tt] \ (direct(tt) \cup ownerDead(tt))
         [] tt = "prep_folders" -> {r \in d[tt] : r.id \notin deadFolders}
         [] tt = "prep_items" ->
              {r \in d[tt] : /\ r \notin direct(tt) \cup ownerDead(tt)
                            /\ r.folder_id \notin deadFolders}]

\* A row with the columns of patch replaced.
ApplyPatch(row, patch) ==
  [c \in DOMAIN row |-> IF c \in DOMAIN patch THEN patch[c] ELSE row[c]]

\* supabase.from(t).select('*') as caller: the rows the SELECT policy lets
\* through (a filter such as .eq('id', x) then applies to these).
DbSelect(d, caller, t) == {r \in d[t] : PolicyUsing(t, "select", caller, r)}

\* supabase.from(t).insert([row]) as caller: [db, error, data].
DbInsert(d, caller, t, row) ==
  IF /\ PolicyWithCheck(t, "insert", caller, row)
     /\ row.id \notin RowIds(d, t)
     /\ ForeignKeysHold(d, t, row)
     /\ ChecksHold(t, row)
  THEN [db |-> [d EXCEPT ![t] = @ \cup {row}], error |-> FALSE, data |-> {row}]
  ELSE [db |-> d, error |-> TRUE, data |-> {}]

\* supabase.from(t).update(patch).eq('id', id) as caller: [db, error, data].
\* A row the UPDATE policy hides is not found: zero rows, no error.
DbUpdate(d, caller, t, id, patch) ==
  LET hit == {r \in d[t] : r.id = id /\ PolicyUsing(t, "update", caller, r)}
      new == {ApplyPatch(r, patch) : r \in hit}
  IN IF hit = {} THEN [db |-> d, error |-> FALSE, data |-> {}]
     ELSE IF \A r \in new : /\ PolicyWithCheck(t, "update", caller, r)
                            /\ ForeignKeysHold(d, t, r)
                            /\ ChecksHold(t, r)
     THEN [db |-> [d EXCEPT ![t] = (@ \ hit) \cup new], error |-> FALSE, data |-> new]
     ELSE [db |-> d, error |-> TRUE, data |-> {}]

\* supabase.from(t).delete().eq('id', id) as caller: [db, error, data].
DbDelete(d, caller, t, id) ==
  LET hit == {r \in d[t] : r.id = id /\ PolicyUsing(t, "delete", caller, r)} IN
  [db |-> DeleteCascade(d, t, hit), error |-> FALSE, data |-> hit]


\* ------------------------------------------- parts of the state at rest
TreeIdle ==
  /\ folders = <<>>
  /\ expandedFolders = {}
  /\ stack = <<>>
  /\ built = <<>>
  /\ rootFolders = <<>>
  /\ pc = "idle"

DbIdle ==
  /\ db = EmptyDb
  /\ tablesInUse = {}
  /\ lastCall = NoCall

\* A row that is none: editingFolder, editingItem = null.
NoRow == [id |-> NULL]
NoRes == [error |-> FALSE, data |-> {}, data2 |-> {}]
Quiet == [handler |-> "none", toast |-> "none", confirmed |-> "none"]

PageIdle ==
  /\ page = "none"
  /\ items = <<>>
  /\ isLoading = TRUE
  /\ selectedFolderId = NULL
  /\ isModalOpen = FALSE
  /\ modalMode = "folder"
  /\ editingFolder = NoRow
  /\ editingItem = NoRow
  /\ folderName = <<>>
  /\ inflight = <<>>
  /\ nextId = [t \in Tables |-> 1]
  /\ actsPending = 0
  /\ lastStep = Quiet

FormIdle ==
  /\ formData = EmptyForm
  /\ tagInput = <<>>
  /\ timers = {}

\* ------------------------------------- the row store, called directly
\* Text values: a text is a sequence of characters.
TextA == <<"a">>
TextB == <<"b">>

TableIds(t) ==
  CASE t = "profiles" -> Users
    [] t \in FlatTables -> 1..MaxDbFlat
    [] t = "prep_folders" -> 1..MaxDbFolders
    [] t = "prep_items" -> 1..MaxDbItems

\* The rows a caller may offer to insert: any owner, any reference.
ApiRows(t) ==
  CASE t = "profiles" -> {[id |-> w, full_name |-> TextA] : w \in Users}
    [] t = "jobs" ->
         {[id |-> i, user_id |-> w, role |-> TextA, company |-> TextA] :
            i \in TableIds(t), w \in Users}
    [] t = "stories" ->
         {[id |-> i, user_id |-> w, title |-> TextA, tags |-> <<>>] :
            i \in TableIds(t), w \in Users}
    [] t = "notes" ->
         {[id |-> i, user_id |-> w, title |-> TextA, content |-> TextA, tags |-> <<>>] :
            i \in TableIds(t), w \in Users}
    [] t = "prep_folders" ->
         {[id |-> i, user_id |-> w, name |-> TextA, parent_id |-> p] :
            i \in TableIds(t), w \in Users, p \in TableIds(t) \cup {NULL}}
    [] t = "prep_items" ->
         {[id |-> i, user_id |-> w, folder_id |-> f, type |-> "note",
           title |-> TextA, content |-> TextA, tags |-> <<>>] :
            i \in TableIds(t), w \in Users, f \in TableIds("prep_folders")}

\* The column changes a caller may offer: the owner, a reference, a data column.
ApiPatches(t) ==
  CASE t = "profiles" -> {[id |-> w] : w \in Users} \cup {[full_name |-> TextB]}
    [] t = "jobs" -> {[user_id |-> w] : w \in Users} \cup {[role |-> TextB]}
    [] t \in {"stories", "notes"} -> {[user_id |-> w] : w \in Users} \cup {[title |-> TextB]}
    [] t = "prep_folders" ->
         {[user_id |-> w] : w \in Users}
         \cup {[parent_id |-> p] : p \in TableIds(t) \cup {NULL}}
    [] t = "prep_items" ->
         {[user_id |-> w] : w \in Users} \cup {[title |-> TextB]}
         \cup {[folder_id |-> f] : f \in TableIds("prep_folders")}

\* What the caller gets back: { data, error }.  Without .select() a mutation
\* returns no rows.
Answer(caller, op, t, res) ==
  [caller |-> caller, op |-> op, table |-> t,
   data |-> IF op = "select" THEN res.data ELSE {}, error |-> res.error]

\* One run of direct calls stays within profiles and jobs, profiles and stories,
\* profiles and notes, or profiles and the two preparation tables.
TableGroups ==
  {{"profiles", t} : t \in FlatTables} \cup {{"profiles", "prep_folders", "prep_items"}}

\* select('*').eq('id', id) by any signed-in user on any table.
ApiSelectById ==
  \E caller \in Users, t \in tablesInUse : \E id \in TableIds(t) :
    /\ lastCall' = Answer(caller, "select", t,
                           [data |-> {r \in DbSelect(db, caller, t) : r.id = id},
                            error |-> FALSE])
    /\ UNCHANGED <<db, tablesInUse, exceptDb>>

\* select('*') with no filter of the caller's own (fetchJobs, fetchStories, fetchNotes).
ApiSelectAll ==
  \E caller \in Users, t \in tablesInUse :
    /\ lastCall' = Answer(caller, "select", t,
                           [data |-> DbSelect(db, caller, t), error |-> FALSE])
    /\ UNCHANGED <<db, tablesInUse, exceptDb>>

ApiInsert ==
  \E caller \in Users, t \in tablesInUse : \E row \in ApiRows(t) :
    LET res == DbInsert(db, caller, t, row) IN
    /\ db' = res.db
    /\ lastCall' = Answer(caller, "insert", t, res)
    /\ UNCHANGED <<tablesInUse, exceptDb>>

ApiUpdate ==
  \E caller \in Users, t \in tablesInUse : \E id \in TableIds(t), patch \in ApiPatches(t) :
    LET res == DbUpdate(db, caller, t, id, patch) IN
    /\ db' = res.db
    /\ lastCall' = Answer(caller, "update", t, res)
    /\ UNCHANGED <<tablesInUse, exceptDb>>

ApiDelete ==
  \E caller \in Users, t \in tablesInUse : \E id \in TableIds(t) :
    LET res == DbDelete(db, caller, t, id) IN
    /\ db' = res.db
    /\ lastCall' = Answer(caller, "delete", t, res)
    /\ UNCHANGED <<tablesInUse, exceptDb>>

\* handle_new_user has given every identity its profile; the other tables are empty.
DbInit ==
  /\ db = [EmptyDb EXCEPT !["profiles"] = {[id |-> w, full_name |-> TextA] : w \in Users}]
  /\ tablesInUse \in TableGroups
  /\ lastCall = NoCall

DbNext == ApiSelectById \/ ApiSelectAll \/ ApiInsert \/ ApiUpdate \/ ApiDelete

InitDb == DbInit /\ TreeIdle /\ FormIdle /\ PageIdle

SpecDb == InitDb /\ [][DbNext]_vars


\* -------------------------------------------- claims about the row store
\* The rows of every table that caller does not own.
RowsOfOthers(d, caller) == [t \in Tables |-> {r \in d[t] : OwnerOf(t, r) # caller}]

\* C4 (as stated): whatever a user's select, update or delete is addressed to, it
\* returns none of another user's rows and leaves every row of every other user
\* as it was.
C4_AsStated ==
  [][lastCall'.op \in {"select", "update", "delete"} =>
       /\ \A r \in lastCall'.data : OwnerOf(lastCall'.table, r) = lastCall'.caller
       /\ RowsOfOthers(db', lastCall'.caller) = RowsOfOthers(db, lastCall'.caller)]_vars

\* Every reference to a folder is to a folder of the row's own owner.
ReferencesStayWithinOwner(d) ==
  /\ \A f \in d.prep_folders :
       f.parent_id # NULL =>
         \E p \in d.prep_folders : p.id = f.parent_id /\ p.user_id = f.user_id
  /\ \A i \in d.prep_items :
       \E p \in d.prep_folders : p.id = i.folder_id /\ p.user_id = i.user_id

\* C4, the part that holds: a select returns only rows the caller owns.
C4_SelectReturnsOwnRows ==
  lastCall.op = "select" =>
    \A r \in lastCall.data : OwnerOf(lastCall.table, r) = lastCall.caller

\* C4, the part that holds: while no row hangs under another user's folder, an
\* update or delete changes no row of another user.
C4_HoldsWhileReferencesStayWithinOwner ==
  [][(lastCall'.op \in {"update", "delete"} /\ ReferencesStayWithinOwner(db)) =>
       RowsOfOthers(db', lastCall'.caller) = RowsOfOthers(db, lastCall'.caller)]_vars

\* C6 (as stated): every folder with a parent has a parent folder of the same owner.
C6_AsStated ==
  \A f \in db.prep_folders :
    f.parent_id # NULL =>
      \E p \in db.prep_folders : p.id = f.parent_id /\ p.user_id = f.user_id

\* C11 (as stated): every identity has exactly one profile row, whose id is the
\* identity's id, in every state the users' own calls can reach.
C11_AsStated ==
  \A w \in Users : Cardinality({r \in db.profiles : r.id = w}) = 1
\* What does hold: never more than one profile for an identity, and no profile
\* without its identity.
C11_AtMostOneProfile ==
  /\ \A w \in Users : Cardinality({r \in db.profiles : r.id = w}) <= 1
  /\ \A r \in db.profiles : r.id \in Users


\* The rows of every table but profiles that w owns.
RowsOwnedBy(d, w) == [t \in Tables \ {"profiles"} |-> {r \in d[t] : r.user_id = w}]
\* user_id ... REFERENCES profiles(id): every row's owner has a profile.
OwnersExist(d) == \A t \in Tables \ {"profiles"} : \A r \in d[t] : r.user_id \in RowIds(d, "profiles")
\* The step is a delete that took the profile of w away.
ProfileDeleted(w) ==
  /\ lastCall'.op = "delete" /\ lastCall'.table = "profiles"
  /\ w \in RowIds(db, "profiles") \ RowIds(db', "profiles")

\* C15 (as stated): every job, story, note, folder and item has an owner with a
\* profile, and a delete of a profile removes every row that user owns and no
\* row of any other user.
C15_AsStated ==
  /\ []OwnersExist(db)
  /\ [][\A w \in Users : ProfileDeleted(w) =>
          /\ \A t \in Tables \ {"profiles"} : RowsOwnedBy(db', w)[t] = {}
          /\ \A x \in Users \ {w} : RowsOwnedBy(db', x) = RowsOwnedBy(db, x)]_vars
\* C15, the part that holds: every row's owner has a profile.
C15_OwnersExist == OwnersExist(db)
\* C15, the part that holds: a profile's delete leaves no row of that user, and
\* while no row hangs under another user's folder it leaves the other users' rows.
C15_ProfileDeleteRemovesOwnRows ==
  [][\A w \in Users : ProfileDeleted(w) =>
       /\ \A t \in Tables \ {"profiles"} : RowsOwnedBy(db', w)[t] = {}
       /\ ReferencesStayWithinOwner(db) =>
            \A x \in Users \ {w} : RowsOwnedBy(db', x) = RowsOwnedBy(db, x)]_vars


\* The patch writes the owner column of t.
WritesOwner(t, patch) == (IF t = "profiles" THEN "id" ELSE "user_id") \in DOMAIN patch
\* C25: no insert or update makes a row of another owner: an insert whose owner
\* column is not the caller is rejected, an update that sets the owner column of
\* one of the caller's rows to another user is rejected, and every row an insert
\* or update puts into any table is owned by the caller.
C25_NoRowForAnotherOwner ==
  /\ [](\A caller \in Users, t \in tablesInUse :
          /\ \A row \in ApiRows(t) :
               OwnerOf(t, row) # caller =>
                 LET res == DbInsert(db, caller, t, row) IN res.error /\ res.db = db
          /\ \A r \in db[t], patch \in ApiPatches(t) :
               (OwnerOf(t, r) = caller /\ OwnerOf(t, ApplyPatch(r, patch)) # caller) =>
                 LET res == DbUpdate(db, caller, t, r.id, patch) IN res.error /\ res.db = db)
  /\ [][lastCall'.op \in {"insert", "update"} =>
          \A t \in Tables : \A r \in db'[t] \ db[t] : OwnerOf(t, r) = lastCall'.caller]_vars
\* u tried to hand one of its jobs to v, whose profile exists, and was refused;
\* the job is still u's.
C25_Witness ==
  /\ lastCall.op = "update" /\ lastCall.table = "jobs"
  /\ lastCall.caller = "u" /\ lastCall.error
  /\ "v" \in RowIds(db, "profiles")
  /\ \E r \in db.jobs : r.user_id = "u"
  /\ \A r \in db.jobs : r.user_id # "v"


\* ------------------------------------------------- the tag handlers
\* handleAddTag without the includes test.
AddTagAlways(form, input) ==
  LET tag == Trim(input) IN
  IF tag # <<>>
  THEN [formData |-> [form EXCEPT !.tags = Append(form.tags, tag)], tagInput |-> <<>>]
  ELSE [formData |-> form, tagInput |-> input]

\* handleAddTag without the trim.
AddTagUntrimmed(form, input) ==
  IF input # <<>> /\ ~Includes(form.tags, input)
  THEN [formData |-> [form EXCEPT !.tags = Append(form.tags, input)], tagInput |-> <<>>]
  ELSE [formData |-> form, tagInput |-> input]

\* handleAddTag: the draft and the tag field it leaves.
\* const tag = tagInput.trim(); if (tag && !formData.tags.includes(tag)) { ... }
AddTag(form, input) ==
  LET tag == Trim(input) IN
  IF tag # <<>> /\ ~Includes(form.tags, tag)
  THEN [formData |-> [form EXCEPT !.tags = Append(form.tags, tag)], tagInput |-> <<>>]
  ELSE [formData |-> form, tagInput |-> input]

\* handleRemoveTag: tags: formData.tags.filter((tag) => tag !== tagToRemove)
RemoveTag(form, tagToRemove) ==
  LET Other(tag) == tag # tagToRemove IN
  [form EXCEPT !.tags = SelectSeq(form.tags, Other)]

TagInputs == SeqsUpTo(Chars, MaxTagLen)

\* onChange={(e) => setTagInput(e.target.value)}
SetTagInput ==
  \E text \in TagInputs :
    /\ tagInput' = text
    /\ UNCHANGED <<formData, exceptForm>>

HandleAddTag ==
  /\ Len(formData.tags) < MaxTags
  /\ formData' = AddTag(formData, tagInput).formData
  /\ tagInput' = AddTag(formData, tagInput).tagInput
  /\ UNCHANGED exceptForm

HandleRemoveTag ==
  \E tagToRemove \in TagInputs :
    /\ formData' = RemoveTag(formData, tagToRemove)
    /\ UNCHANGED <<tagInput, exceptForm>>

\* A draft as handleOpenItemModal / handleOpenModal loads it: the tags of a stored
\* row (tags text[], any texts, repeats allowed) or none.
InitTags ==
  /\ formData \in {[EmptyForm EXCEPT !.tags = tags] :
                     tags \in SeqsUpTo(TagInputs \ {<<>>}, MaxTags - 1)}
  /\ tagInput \in TagInputs
  /\ timers = {}
  /\ TreeIdle
  /\ DbIdle
  /\ PageIdle

TagsNext == SetTagInput \/ HandleAddTag \/ HandleRemoveTag

SpecTags == InitTags /\ [][TagsNext]_vars

\* C7: adding a tag that is already on the draft leaves the tag list as it is, and
\* so does removing a tag that is not on it; adding twice (with the tag typed
\* again, or with the field as the first add left it) or removing twice gives the
\* list that doing it once gives.
C7_TagHandlersIdempotent ==
  /\ Includes(formData.tags, Trim(tagInput)) =>
       AddTag(formData, tagInput).formData = formData
  /\ \A t \in TagInputs :
       /\ ~Includes(formData.tags, t) => RemoveTag(formData, t) = formData
       /\ RemoveTag(RemoveTag(formData, t), t) = RemoveTag(formData, t)
  /\ LET once == AddTag(formData, tagInput) IN
       /\ AddTag(once.formData, tagInput).formData = once.formData
       /\ AddTag(once.formData, once.tagInput).formData = once.formData

\* A draft that holds a tag twice, one of them about to be typed again, after
\* both handlers have run.
C7_Witness ==
  /\ Len(formData.tags) = MaxTags
  /\ \E i, j \in 1..Len(formData.tags) : i # j /\ formData.tags[i] = formData.tags[j]
  /\ Includes(formData.tags, Trim(tagInput))
  /\ tagInput # Trim(tagInput)
  /\ \E t \in TagInputs : ~Includes(formData.tags, t) /\ Trim(t) # <<>>

\* No tag is on the list twice; no tag is empty or white space only.
NoDuplicateTag(tags) == \A i, j \in 1..Len(tags) : tags[i] = tags[j] => i = j
NoBlankTag(tags) == \A i \in 1..Len(tags) : Trim(tags[i]) # <<>>
\* How often t is on the list.
TagCount(tags, t) == Cardinality({i \in 1..Len(tags) : tags[i] = t})

\* C17 (as stated): from a draft without a duplicate tag, whatever the tag
\* handlers do, the draft has no duplicate tag and no empty or white-space tag.
\* The handlers keep a list without duplicates without duplicates, so every
\* draft on the way is one the claim starts from: each change of such a draft
\* leaves it without a duplicate and without a blank tag.
C17_AsStated ==
  [][(NoDuplicateTag(formData.tags) /\ formData'.tags # formData.tags) =>
       (NoDuplicateTag(formData'.tags) /\ NoBlankTag(formData'.tags))]_vars

\* C17 (amended): the tag handlers keep a list free of duplicates free of
\* duplicates and a list free of blank tags free of blank tags; a tag is added
\* at the end, trimmed and not blank; and the copies of a tag loaded from a
\* stored row stay, all of them, until that tag is removed, which takes all.
C17_TagHandlersKeepCleanListsClean ==
  [][LET old == formData.tags
         new == formData'.tags
     IN /\ NoDuplicateTag(old) => NoDuplicateTag(new)
        /\ NoBlankTag(old) => NoBlankTag(new)
        /\ Len(new) > Len(old) =>
             /\ new = Append(old, Trim(tagInput))
             /\ Trim(new[Len(new)]) = new[Len(new)]
             /\ new[Len(new)] # <<>>
             /\ ~Includes(old, new[Len(new)])
        /\ \A t \in Range(old) : TagCount(new, t) \in {TagCount(old, t), 0}]_vars

\* A draft loaded with a tag twice, to which the handler has added a tag that
\* was typed with white space around it.
C17_Witness ==
  /\ Len(formData.tags) = MaxTags
  /\ formData.tags[1] = formData.tags[2]
  /\ formData.tags[MaxTags] = <<"a">>
  /\ ~Includes(SubSeq(formData.tags, 1, MaxTags - 1), <<"a">>)
  /\ tagInput = <<>>

\* ------------------------------------------------------ the folder tree
FolderIds == 1..MaxFolders
\* An identifier of a folder that is not among the client's folders.
ForeignId == MaxFolders + 1

\* The folders array for a choice of present ids and parents, in id order.
RECURSIVE FolderArray(_, _, _)
FolderArray(present, parentOf, n) ==
  IF n = 0 THEN <<>>
  ELSE FolderArray(present, parentOf, n - 1)
       \o (IF n \in present
           THEN <<[id |-> n, name |-> 1, parent_id |-> parentOf[n]]>>
           ELSE <<>>)

\* A find where the code has a filter: only the first match.
ChildrenOfFirstMatch(parentId) ==
  LET IsChild(f) == f.parent_id = parentId
      all == Ids(SelectSeq(folders, IsChild))
  IN IF all = <<>> THEN <<>> ELSE <<Head(all)>>

\* A filter that also takes, for the null parent, the folders whose parent is
\* no folder of the set.
ChildrenOfWithOrphans(parentId) ==
  LET IsChild(f) ==
        \/ f.parent_id = parentId
        \/ parentId = NULL /\ \A g \in Range(folders) : g.id # f.parent_id
  IN Ids(SelectSeq(folders, IsChild))

\* folders.filter((f) => f.parent_id === parentId)
ChildrenOf(parentId) ==
  LET IsChild(f) == f.parent_id = parentId IN Ids(SelectSeq(folders, IsChild))

FolderById(id) == CHOOSE f \in Range(folders) : f.id = id

\* One activation of buildFolderTree(parentId): the filtered list and the
\* position of the map over it.
Frame(parentId) == [parentId |-> parentId, matched |-> ChildrenOf(parentId), idx |-> 1]

\* The outermost call given the first folder's id where the code gives null.
RootParentFirstFolder == IF folders = <<>> THEN NULL ELSE folders[1].id

\* The argument of the outermost call: buildFolderTree(null).
RootParent == NULL

\* const rootFolders = buildFolderTree(null), evaluated on every render.
Render ==
  /\ pc = "idle"
  /\ stack' = <<Frame(RootParent)>>
  /\ built' = <<>>
  /\ pc' = "building"
  /\ UNCHANGED <<folders, expandedFolders, rootFolders, exceptTree>>

\* map reaches the next matched folder and evaluates children: buildFolderTree(folder.id).
\* A call chain longer than the folder count plus the root call repeats a folder, so
\* the recursion never returns: the stack is exhausted.
BuildCall ==
  /\ pc = "building"
  /\ LET top == stack[Len(stack)] IN
       /\ top.idx <= Len(top.matched)
       /\ IF Len(stack) > Len(folders)
          THEN /\ pc' = "overflow"
               /\ UNCHANGED stack
          ELSE /\ stack' = Append(stack, Frame(top.matched[top.idx]))
               /\ pc' = pc
  /\ UNCHANGED <<folders, expandedFolders, built, rootFolders, exceptTree>>

\* The node object for one folder, once its children call has returned.
TreeNode(folderId, children) ==
  [id |-> folderId,
   name |-> FolderById(folderId).name,
   parent_id |-> FolderById(folderId).parent_id,
   children |-> children,
   isExpanded |-> folderId \in expandedFolders]

\* map has passed the last matched folder: the activation returns its list.
BuildReturn ==
  /\ pc = "building"
  /\ LET top == stack[Len(stack)]
         rest == SubSeq(stack, 1, Len(stack) - 1)
     IN
       /\ top.idx > Len(top.matched)
       /\ IF rest = <<>>
          THEN /\ rootFolders' = top.matched
               /\ stack' = <<>>
               /\ built' = built
               /\ pc' = "done"
          ELSE LET caller == rest[Len(rest)] IN
               /\ built' = Append(built, TreeNode(caller.matched[caller.idx], top.matched))
               /\ stack' = [rest EXCEPT ![Len(rest)].idx = caller.idx + 1]
               /\ rootFolders' = rootFolders
               /\ pc' = pc
  /\ UNCHANGED <<folders, expandedFolders, exceptTree>>

TreeInit ==
  /\ \E present \in SUBSET FolderIds :
       \E parentOf \in [FolderIds -> FolderIds \cup {NULL, ForeignId}] :
         /\ \A n \in FolderIds \ present : parentOf[n] = NULL
         /\ folders = FolderArray(present, parentOf, MaxFolders)
  /\ expandedFolders \in SUBSET FolderIds
  /\ stack = <<>>
  /\ built = <<>>
  /\ rootFolders = <<>>
  /\ pc = "idle"

TreeNext == Render \/ BuildCall \/ BuildReturn

\* The render runs to completion once started: JavaScript does not suspend a
\* synchronous call.
InitTree == TreeInit /\ DbIdle /\ FormIdle /\ PageIdle

SpecTree == InitTree /\ [][TreeNext]_vars /\ WF_vars(TreeNext)

\* ------------------------------------------- claims about the folder tree
\* Where one parent step leads: from a folder of the set to its parent_id, from
\* anything else (null, an id of no folder of the set) nowhere.
Nowhere == NULL - 1
HasFolder(id) == \E f \in Range(folders) : f.id = id
ParentStep(x) == IF HasFolder(x) THEN FolderById(x).parent_id ELSE Nowhere
RECURSIVE Up(_, _)
Up(x, n) == IF n = 0 THEN x ELSE Up(ParentStep(x), n - 1)
OnCycle(id) == \E n \in 1..Len(folders) : Up(id, n) = id
ReachesRoot(id) == \E n \in 1..Len(folders) : Up(id, n) = NULL
HasCycle == \E f \in Range(folders) : OnCycle(f.id)
\* Some folder's parent is one of its own proper descendants.
HasDescendantCycle == \E f \in Range(folders) : OnCycle(f.id) /\ f.parent_id # f.id
\* Every parent reference is null or names a folder of the set.
ParentsInSet == \A f \in Range(folders) : f.parent_id = NULL \/ HasFolder(f.parent_id)
BuiltIds == {built[i].id : i \in 1..Len(built)}
ChildSet(id) == {f.id : f \in {g \in Range(folders) : g.parent_id = id}}
NodesHaveTheirChildren ==
  \A i \in 1..Len(built) :
    /\ Range(built[i].children) = ChildSet(built[i].id)
    /\ Len(built[i].children) = Cardinality(ChildSet(built[i].id))

\* C1 (as stated): for every folder set with no parent cycles the finished forest
\* has as many nodes as there are folders, and every node's children are exactly
\* the folders whose parent_id is the node's id.
C1_AsStated ==
  (pc = "done" /\ ~HasCycle) =>
    /\ Len(built) = Len(folders)
    /\ NodesHaveTheirChildren

\* C1 (amended): the same, for folder sets with no parent cycles in which every
\* non-null parent_id is the id of a folder of the set.
C1_ForestOfClosedAcyclicSet ==
  (pc = "done" /\ ~HasCycle /\ ParentsInSet) =>
    /\ Len(built) = Len(folders)
    /\ BuiltIds = {f.id : f \in Range(folders)}
    /\ Range(rootFolders) = ChildSet(NULL)
    /\ NodesHaveTheirChildren

C1_Witness ==
  /\ pc = "done" /\ ~HasCycle /\ ParentsInSet
  /\ Len(folders) = MaxFolders
  /\ \E i \in 1..Len(built) : Len(built[i].children) >= 2
  /\ \E i \in 1..Len(built) : built[i].parent_id # NULL

\* C5 (as stated): with a parent cycle among the folders the build started from
\* the null parent never finishes.
C5_AsStated == HasDescendantCycle => pc # "done"

\* C5 (amended): with a parent cycle among the folders the build started from the
\* null parent still finishes, without exhausting the stack; the folders on a
\* cycle, and those below one, are absent from the forest.
C5_CycleBuildTerminates ==
  /\ [](pc # "overflow")
  /\ ((pc = "building" /\ HasCycle) ~> (pc = "done"))
  /\ []((pc = "done" /\ HasCycle) =>
         /\ BuiltIds = {f.id : f \in {g \in Range(folders) : ReachesRoot(g.id)}}
         /\ \A f \in Range(folders) : OnCycle(f.id) => f.id \notin BuiltIds)

C5_Witness ==
  /\ pc = "done" /\ HasDescendantCycle
  /\ built # <<>>

\* C22: whatever the folders are (parents on a cycle, parents that are no
\* folder of the set), buildFolderTree(null) returns, without exhausting the
\* stack, and the forest holds exactly the folders whose parent chain ends at a
\* folder with a null parent.
C22_BuildTerminatesWithRootedFolders ==
  /\ [](pc # "overflow")
  /\ (pc = "building") ~> (pc = "done")
  /\ [](pc = "done" =>
         BuiltIds = {f.id : f \in {g \in Range(folders) : ReachesRoot(g.id)}})
\* A build that has returned for a set with a rooted folder, a folder whose
\* parent is no folder of the set, and a folder that is its own ancestor.
C22_Witness ==
  /\ pc = "done"
  /\ \E f \in Range(folders) : f.parent_id = NULL /\ f.id \in BuiltIds
  /\ \E f \in Range(folders) :
       f.parent_id # NULL /\ ~HasFolder(f.parent_id) /\ f.id \notin BuiltIds
  /\ \E f \in Range(folders) : OnCycle(f.id) /\ f.id \notin BuiltIds

\* ------------------------------------------------ the pages: shared parts
\* const { user } = useAuth(): the signed-in user.
Me == "u"

\* The rows of a select as the array the client keeps, in id order.
RECURSIVE RowsToArray(_)
RowsToArray(rows) ==
  IF rows = {} THEN <<>>
  ELSE LET first == CHOOSE x \in rows : \A y \in rows : x.id <= y.id
       IN <<first>> \o RowsToArray(rows \ {first})

Without(seq, i) == SubSeq(seq, 1, i - 1) \o SubSeq(seq, i + 1, Len(seq))

\* What a step shows: the handler that ran and the toast it raised.
Step(handler, toast) == [handler |-> handler, toast |-> toast, confirmed |-> "none"]
\* A step that passed through confirm(...).
Confirmed(handler, answer) ==
  [handler |-> handler, toast |-> "none", confirmed |-> IF answer THEN "yes" ELSE "no"]

\* An awaited storage call, with the values the handler closed over.
Request(handler, call, snap) ==
  [h |-> handler, phase |-> "sent", call |-> call, snap |-> snap, res |-> NoRes]

\* Room for one more pending call, and for one more row of table t: the rows
\* stored so far and the inserts on their way stay within the table's bound.
CanCall == Len(inflight) < MaxInflight

\* An autosave effect that clears no timeout when it runs again.
AutoSaveTimersKept(old, note, data) ==
  old \cup (IF note = NoRow THEN {} ELSE {[noteId |-> note.id, data |-> data]})
\* Notes, the autosave effect run again: the cleanup clearTimeout(timeout) of
\* the run before, then if (!editingNote) return, else
\* setTimeout(() => autoSave(editingNote.id, formData), 1000).
AutoSaveTimers(old, note, data) ==
  IF note = NoRow THEN {} ELSE {[noteId |-> note.id, data |-> data]}
\* useEffect(..., [formData, editingNote, autoSave]): after a render of the
\* Notes page in which formData or editingNote is another value.
AutoSaveEffect ==
  timers' = IF page = "Notes" /\ (formData' # formData \/ editingItem' # editingItem)
            THEN AutoSaveTimers(timers, editingItem', formData')
            ELSE timers

\* The user does something on the page; an answer comes back.
UserActs ==
  /\ inflight = <<>> \/ actsPending < MaxActsWhilePending
  /\ actsPending' = IF inflight = <<>> THEN 0 ELSE actsPending + 1
Acting == UserActs /\ AutoSaveEffect
Settling ==
  /\ actsPending' = IF inflight' = <<>> THEN 0 ELSE actsPending
  /\ AutoSaveEffect
PendingInserts(t) ==
  Cardinality({i \in 1..Len(inflight) :
     /\ inflight[i].phase = "sent"
     /\ inflight[i].call.kind = "insert"
     /\ inflight[i].call.table = t})
RowBound(t) ==
  CASE t = "prep_folders" -> MaxFolderRows
    [] t = "prep_items" -> MaxItemRows
    [] OTHER -> MaxFlatRows
CanInsert(t) == nextId[t] + PendingInserts(t) <= RowBound(t)

\* The row store answers a call: what it does to the tables and what it returns.
Served(req) ==
  CASE req.call.kind = "fetch" ->
         [db |-> db,
          res |-> [error |-> FALSE,
                   data |-> {r \in DbSelect(db, Me, req.call.table) :
                               req.call.eqUser => r.user_id = Me},
                   data2 |-> IF req.call.table2 = "none" THEN {}
                             ELSE {r \in DbSelect(db, Me, req.call.table2) :
                                     req.call.eqUser => r.user_id = Me}]]
    [] req.call.kind = "insert" ->
         \* id uuid PRIMARY KEY DEFAULT gen_random_uuid(); the row comes back
         \* only with .select()
         LET r == DbInsert(db, Me, req.call.table,
                           [req.call.row EXCEPT !.id = nextId[req.call.table]]) IN
         [db |-> r.db,
          res |-> [error |-> r.error,
                   data |-> IF req.call.returning THEN r.data ELSE {},
                   data2 |-> {}]]
    [] req.call.kind = "update" ->
         LET r == DbUpdate(db, Me, req.call.table, req.call.id, req.call.patch) IN
         [db |-> r.db, res |-> [error |-> r.error, data |-> {}, data2 |-> {}]]
    [] req.call.kind = "delete" ->
         LET r == DbDelete(db, Me, req.call.table, req.call.id) IN
         [db |-> r.db, res |-> [error |-> r.error, data |-> {}, data2 |-> {}]]

\* A call fails on the way (network, service): nothing is stored, the client
\* gets an error.
Failed == [db |-> db, res |-> [error |-> TRUE, data |-> {}, data2 |-> {}]]

\* The pending call i reaches the row store and is answered, or fails on the way.
Delivered(i, fails) ==
  LET req == inflight[i]
      out == IF fails THEN Failed ELSE Served(req)
  IN /\ req.phase = "sent"
     /\ db' = out.db
     /\ inflight' = [inflight EXCEPT ![i] = [req EXCEPT !.phase = "answered", !.res = out.res]]
     /\ nextId' = IF req.call.kind = "insert" /\ ~fails
                  THEN [nextId EXCEPT ![req.call.table] = @ + 1]
                  ELSE nextId
     /\ lastStep' = Quiet
     /\ UNCHANGED <<tablesInUse, lastCall, treeVars, formVars, page, prepVars>>
     /\ Settling

\* One pending call reaches the row store and is answered.
Serve == \E i \in 1..Len(inflight), fails \in BOOLEAN : Delivered(i, fails)

\* The same where no call fails on the way.
ServeWithoutFailure == \E i \in 1..Len(inflight) : Delivered(i, FALSE)

\* ------------------------------------------------ the Preparation page
\* 'Root'
RootName == <<"R", "o", "o", "t">>

\* What the user may type into a name or title field: a blank, or a text.
FormTexts == {<<" ">>, <<"a">>}

\* A filter that also takes the items of the folders below the selected one.
selectedFolderItemsWithDescendants ==
  LET InOrBelow(item) ==
        \/ item.folder_id = selectedFolderId
        \/ \E n \in 1..Len(folders) : Up(item.folder_id, n) = selectedFolderId
  IN SelectSeq(items, InOrBelow)
\* const selectedFolderItems = items.filter((item) => item.folder_id === selectedFolderId)
selectedFolderItems ==
  LET InSelected(item) == item.folder_id = selectedFolderId IN SelectSeq(items, InSelected)

\* A tree that shows every folder, whatever is expanded.
AllFolderIds == {f.id : f \in Range(folders)}
\* FolderTree renders a node when it is a root or all the folders above it are
\* expanded (node.isExpanded && node.children.length > 0).
VisibleIds ==
  {f.id : f \in {g \in Range(folders) :
      /\ ReachesRoot(g.id)
      /\ \A n \in 1..Len(folders) :
           HasFolder(Up(g.id, n)) => Up(g.id, n) \in expandedFolders}}

\* if (isLoading) return spinner; if (folders.length === 0) return the empty card.
PrepEmptyUi == page = "Preparation" /\ ~isLoading /\ Len(folders) = 0
PrepUi == page = "Preparation" /\ ~isLoading /\ Len(folders) > 0
\* The modal, when open, covers the page.
PrepMainUi == PrepUi /\ ~isModalOpen
PrepFolderModalUi == PrepUi /\ isModalOpen /\ modalMode = "folder"
PrepItemModalUi == PrepUi /\ isModalOpen /\ modalMode # "folder"

\* handleCloseModal's four setters.
ClosedModal ==
  /\ isModalOpen' = FALSE
  /\ editingFolder' = NoRow
  /\ editingItem' = NoRow
  /\ tagInput' = <<>>

\* A catch that also runs handleCloseModal.
CatchClosingModal(handler) ==
  /\ lastStep' = Step(handler, "error")
  /\ ClosedModal
  /\ UNCHANGED <<folders, items, selectedFolderId>>
\* catch (error) { toast.error(...) } of a Preparation handler.
Catch(handler) ==
  /\ lastStep' = Step(handler, "error")
  /\ UNCHANGED <<folders, items, selectedFolderId, isModalOpen, editingFolder,
                 editingItem, tagInput>>

\* fetchData up to its await: the two selects of Promise.all.
FetchDataRequest(sel) ==
  Request("fetchData",
          [kind |-> "fetch", table |-> "prep_folders", table2 |-> "prep_items",
           eqUser |-> TRUE],
          [selectedFolderId |-> sel])

\* fetchData after its await.
ResumeFetchData ==
  \E i \in 1..Len(inflight) :
    LET req == inflight[i]
        roots == {f \in req.res.data : f.parent_id = NULL}
    IN /\ page = "Preparation"
       /\ req.h = "fetchData" /\ req.phase = "answered"
       /\ IF req.res.error
          THEN Catch("fetchData")
          ELSE /\ folders' = RowsToArray(req.res.data)
               /\ items' = RowsToArray(req.res.data2)
               /\ IF req.snap.selectedFolderId = NULL /\ roots # {}
                  THEN \E rootFolder \in roots : selectedFolderId' = rootFolder.id
                  ELSE UNCHANGED selectedFolderId
               /\ lastStep' = Quiet
               /\ UNCHANGED <<isModalOpen, editingFolder, editingItem, tagInput>>
       /\ isLoading' = FALSE
       /\ inflight' = Without(inflight, i)
       /\ UNCHANGED <<dbVars, formData, page, nextId, expandedFolders, stack, built,
                      rootFolders, pc, modalMode, folderName>>
       /\ Settling

\* createRootFolder up to its await.
CreateRootFolder ==
  /\ PrepEmptyUi /\ CanCall /\ CanInsert("prep_folders")
  /\ inflight' = Append(inflight,
       Request("createRootFolder",
               [kind |-> "insert", table |-> "prep_folders", returning |-> TRUE,
                row |-> [id |-> NULL, user_id |-> Me,
                         name |-> RootName, parent_id |-> NULL]],
               [folders |-> folders]))
  /\ lastStep' = Step("createRootFolder", "none")
  /\ UNCHANGED <<dbVars, treeVars, formVars, page, prepVars, nextId>>
  /\ Acting

\* createRootFolder after its await.
ResumeCreateRootFolder ==
  \E i \in 1..Len(inflight) :
    LET req == inflight[i] IN
    /\ req.h = "createRootFolder" /\ req.phase = "answered"
    /\ IF req.res.error \/ req.res.data = {}
       THEN Catch("createRootFolder")
       ELSE \E data \in req.res.data :
            /\ folders' = Append(req.snap.folders, data)
            /\ selectedFolderId' = data.id
            /\ lastStep' = Step("createRootFolder", "success")
            /\ UNCHANGED <<items, isModalOpen, editingFolder, editingItem, tagInput>>
    /\ inflight' = Without(inflight, i)
    /\ UNCHANGED <<dbVars, formData, page, nextId, expandedFolders, stack, built,
                   rootFolders, pc, isLoading, modalMode, folderName>>
    /\ Settling

\* A toggle that only ever adds the id.
ToggledAddOnly(expanded, folderId) == expanded \cup {folderId}
\* toggleFolder's newExpanded: a copy of the set with folderId taken out if it
\* was in, put in if it was not.
Toggled(expanded, folderId) ==
  IF folderId \in expanded THEN expanded \ {folderId} ELSE expanded \cup {folderId}

\* toggleFolder(node.id), from the chevron of a visible node that has children.
\* It runs between renders, and setExpandedFolders makes the next render due.
ToggleFolder ==
  \E folderId \in VisibleIds :
    /\ PrepMainUi
    /\ pc # "building"
    /\ ChildrenOf(folderId) # <<>>
    /\ expandedFolders' = Toggled(expandedFolders, folderId)
    /\ pc' = "idle"
    /\ lastStep' = Quiet
    /\ UNCHANGED <<dbVars, formVars, page, prepVars, inflight, nextId, folders, stack,
                   built, rootFolders>>
    /\ Acting

\* onClick={() => setSelectedFolderId(node.id)} of a visible node.
SelectFolder ==
  \E folderId \in VisibleIds :
    /\ PrepMainUi
    /\ selectedFolderId' = folderId
    /\ lastStep' = Quiet
    /\ UNCHANGED <<dbVars, treeVars, formVars, page, inflight, nextId, items, isLoading,
                   isModalOpen, modalMode, editingFolder, editingItem, folderName>>
    /\ Acting

\* handleOpenFolderModal(folder?): the plus button, or the pencil of a visible node.
HandleOpenFolderModal ==
  \E folder \in {NoRow} \cup {f \in Range(folders) : f.id \in VisibleIds} :
    /\ PrepMainUi
    /\ editingFolder' = folder
    /\ folderName' = IF folder = NoRow THEN <<>> ELSE folder.name
    /\ modalMode' = "folder"
    /\ isModalOpen' = TRUE
    /\ lastStep' = Quiet
    /\ UNCHANGED <<dbVars, treeVars, formVars, page, inflight, nextId, items, isLoading,
                   selectedFolderId, editingItem>>
    /\ Acting

\* handleOpenItemModal(type, item?): Add Story, Add Note, or the pencil of a listed item.
HandleOpenItemModal ==
  /\ PrepMainUi
  /\ selectedFolderId # NULL
  /\ \E type \in ItemTypes, item \in {NoRow} \cup Range(selectedFolderItems) :
      /\ item # NoRow => item.type = type
      /\ editingItem' = item
      /\ formData' = IF item = NoRow THEN EmptyForm
                     ELSE [title |-> item.title, content |-> item.content, tags |-> item.tags]
      /\ modalMode' = type
      /\ isModalOpen' = TRUE
      /\ lastStep' = Quiet
      /\ UNCHANGED <<dbVars, treeVars, tagInput, page, inflight, nextId, items, isLoading,
                     selectedFolderId, editingFolder, folderName>>
      /\ Acting

\* handleCloseModal, from Cancel or the modal's close.
HandleCloseModal ==
  /\ PrepUi /\ isModalOpen
  /\ ClosedModal
  /\ lastStep' = Quiet
  /\ UNCHANGED <<dbVars, treeVars, formData, page, inflight, nextId, items, isLoading,
                 selectedFolderId, modalMode, folderName>>
  /\ Acting

\* onChange={(e) => setFolderName(e.target.value)}
SetFolderName ==
  \E text \in FormTexts :
    /\ PrepFolderModalUi
    /\ folderName' = text
    /\ lastStep' = Quiet
    /\ UNCHANGED <<dbVars, treeVars, formVars, page, inflight, nextId, items, isLoading,
                   selectedFolderId, isModalOpen, modalMode, editingFolder, editingItem>>
    /\ Acting

\* onChange={(e) => setFormData({ ...formData, title: e.target.value })}
SetTitle ==
  \E text \in FormTexts :
    /\ PrepItemModalUi
    /\ formData' = [formData EXCEPT !.title = text]
    /\ lastStep' = Quiet
    /\ UNCHANGED <<dbVars, treeVars, tagInput, page, prepVars, inflight, nextId>>
    /\ Acting

\* The test without trim(): only the empty text counts as blank.
BlankUntrimmed(text) == text = <<>>
\* if (!folderName.trim()), if (!formData.title.trim()): a required field is blank.
Blank(text) == Trim(text) = <<>>

\* An update that also hangs the folder under the selected one.
FolderPatchReparenting(name) == [name |-> name, parent_id |-> selectedFolderId]
\* .update({ name: folderName, updated_at })
FolderPatch(name) == [name |-> name]

\* handleSaveFolder up to its await.
HandleSaveFolder ==
  /\ PrepFolderModalUi
  /\ IF Blank(folderName)
     THEN /\ lastStep' = Step("handleSaveFolder", "error")
          /\ UNCHANGED inflight
     ELSE /\ CanCall
          /\ editingFolder = NoRow => CanInsert("prep_folders")
          /\ inflight' = Append(inflight,
               Request("handleSaveFolder",
                       IF editingFolder # NoRow
                       THEN [kind |-> "update", table |-> "prep_folders",
                             id |-> editingFolder.id, patch |-> FolderPatch(folderName)]
                       ELSE [kind |-> "insert", table |-> "prep_folders", returning |-> TRUE,
                             row |-> [id |-> NULL, user_id |-> Me, name |-> folderName,
                                      parent_id |-> selectedFolderId]],
                       [folders |-> folders, folderName |-> folderName,
                        selectedFolderId |-> selectedFolderId]))
          /\ lastStep' = Step("handleSaveFolder", "none")
  /\ UNCHANGED <<dbVars, treeVars, formVars, page, prepVars, nextId>>
  /\ Acting

\* handleSaveFolder after its await.
ResumeSaveFolder ==
  \E i \in 1..Len(inflight) :
    LET req == inflight[i] IN
    /\ req.h = "handleSaveFolder" /\ req.phase = "answered"
    /\ IF req.res.error
       THEN /\ Catch("handleSaveFolder")
            /\ inflight' = Without(inflight, i)
       ELSE /\ folders' =
                 IF req.call.kind = "update"
                 THEN [k \in 1..Len(req.snap.folders) |->
                         IF req.snap.folders[k].id = req.call.id
                         THEN [req.snap.folders[k] EXCEPT !.name = req.snap.folderName]
                         ELSE req.snap.folders[k]]
                 ELSE req.snap.folders \o RowsToArray(req.res.data)
            /\ ClosedModal
            /\ inflight' = Append(Without(inflight, i),
                                  FetchDataRequest(req.snap.selectedFolderId))
            /\ lastStep' = Step("handleSaveFolder", "success")
            /\ UNCHANGED <<items, selectedFolderId>>
    /\ UNCHANGED <<dbVars, formData, page, nextId, expandedFolders, stack, built,
                   rootFolders, pc, isLoading, modalMode, folderName>>
    /\ Settling

\* An update of the changed column only: the title.
ItemPatchTitleOnly(form) == [title |-> form.title]
\* An update that also writes the kind of a note.
ItemPatchAsNote(form) ==
  [title |-> form.title, content |-> form.content, tags |-> form.tags, type |-> "note"]
\* .update({ ...formData, updated_at }): the columns of the draft, nothing else.
ItemPatch(form) == form

\* handleSaveItem up to its await.
HandleSaveItem ==
  /\ PrepItemModalUi
  /\ IF Blank(formData.title) \/ selectedFolderId = NULL
     THEN /\ lastStep' = Step("handleSaveItem", "error")
          /\ UNCHANGED inflight
     ELSE /\ CanCall
          /\ editingItem = NoRow => CanInsert("prep_items")
          /\ inflight' = Append(inflight,
               Request("handleSaveItem",
                       IF editingItem # NoRow
                       THEN [kind |-> "update", table |-> "prep_items",
                             id |-> editingItem.id, patch |-> ItemPatch(formData)]
                       ELSE [kind |-> "insert", table |-> "prep_items", returning |-> FALSE,
                             row |-> [id |-> NULL, user_id |-> Me,
                                      folder_id |-> selectedFolderId, type |-> modalMode,
                                      title |-> formData.title,
                                      content |-> formData.content,
                                      tags |-> formData.tags]],
                       [selectedFolderId |-> selectedFolderId]))
          /\ lastStep' = Step("handleSaveItem", "none")
  /\ UNCHANGED <<dbVars, treeVars, formVars, page, prepVars, nextId>>
  /\ Acting

\* handleSaveItem after its await.
ResumeSaveItem ==
  \E i \in 1..Len(inflight) :
    LET req == inflight[i] IN
    /\ req.h = "handleSaveItem" /\ req.phase = "answered"
    /\ IF req.res.error
       THEN /\ Catch("handleSaveItem")
            /\ inflight' = Without(inflight, i)
       ELSE /\ ClosedModal
            /\ inflight' = Append(Without(inflight, i),
                                  FetchDataRequest(req.snap.selectedFolderId))
            /\ lastStep' = Step("handleSaveItem", "success")
            /\ UNCHANGED <<folders, items, selectedFolderId>>
    /\ UNCHANGED <<dbVars, formData, page, nextId, expandedFolders, stack, built,
                   rootFolders, pc, isLoading, modalMode, folderName>>
    /\ Settling

\* A handler that ignores confirm's answer.
GoesOnRegardless(answer) == TRUE
\* if (!confirm(...)) return: the handler goes on only when the user says yes.
GoesOn(answer) == answer

\* handleDeleteFolder(node.id) up to its await, from the bin of a visible node.
HandleDeleteFolder ==
  \E id \in VisibleIds, answer \in BOOLEAN :
    /\ PrepMainUi
    /\ IF GoesOn(answer)
       THEN /\ CanCall
            /\ inflight' = Append(inflight,
                 Request("handleDeleteFolder",
                         [kind |-> "delete", table |-> "prep_folders", id |-> id],
                         [selectedFolderId |-> selectedFolderId]))
       ELSE UNCHANGED inflight
    /\ lastStep' = Confirmed("handleDeleteFolder", answer)
    /\ UNCHANGED <<dbVars, treeVars, formVars, page, prepVars, nextId>>
    /\ Acting

\* handleDeleteFolder after its await.
ResumeDeleteFolder ==
  \E i \in 1..Len(inflight) :
    LET req == inflight[i] IN
    /\ req.h = "handleDeleteFolder" /\ req.phase = "answered"
    /\ IF req.res.error
       THEN /\ Catch("handleDeleteFolder")
            /\ inflight' = Without(inflight, i)
       ELSE /\ selectedFolderId' = IF req.snap.selectedFolderId = req.call.id
                                   THEN NULL ELSE selectedFolderId
            /\ inflight' = Append(Without(inflight, i),
                                  FetchDataRequest(req.snap.selectedFolderId))
            /\ lastStep' = Step("handleDeleteFolder", "success")
            /\ UNCHANGED <<folders, items, isModalOpen, editingFolder, editingItem, tagInput>>
    /\ UNCHANGED <<dbVars, formData, page, nextId, expandedFolders, stack, built,
                   rootFolders, pc, isLoading, modalMode, folderName>>
    /\ Settling

\* handleDeleteItem(item.id) up to its await, from the bin of a listed item.
HandleDeleteItem ==
  /\ PrepMainUi
  /\ selectedFolderId # NULL
  /\ \E item \in Range(selectedFolderItems), answer \in BOOLEAN :
      /\ IF GoesOn(answer)
         THEN /\ CanCall
              /\ inflight' = Append(inflight,
                   Request("handleDeleteItem",
                           [kind |-> "delete", table |-> "prep_items", id |-> item.id],
                           [selectedFolderId |-> selectedFolderId]))
         ELSE UNCHANGED inflight
      /\ lastStep' = Confirmed("handleDeleteItem", answer)
      /\ UNCHANGED <<dbVars, treeVars, formVars, page, prepVars, nextId>>
      /\ Acting

\* handleDeleteItem after its await.
ResumeDeleteItem ==
  \E i \in 1..Len(inflight) :
    LET req == inflight[i] IN
    /\ req.h = "handleDeleteItem" /\ req.phase = "answered"
    /\ IF req.res.error
       THEN /\ Catch("handleDeleteItem")
            /\ inflight' = Without(inflight, i)
       ELSE /\ inflight' = Append(Without(inflight, i),
                                  FetchDataRequest(req.snap.selectedFolderId))
            /\ lastStep' = Step("handleDeleteItem", "success")
            /\ UNCHANGED <<folders, items, selectedFolderId, isModalOpen, editingFolder,
                           editingItem, tagInput>>
    /\ UNCHANGED <<dbVars, formData, page, nextId, expandedFolders, stack, built,
                   rootFolders, pc, isLoading, modalMode, folderName>>
    /\ Settling

\* Every identity has its profile (handle_new_user); nothing else is stored.
SignedUp == [EmptyDb EXCEPT !.profiles = {[id |-> w, full_name |-> TextA] : w \in Users}]

\* What earlier sessions of the user have left: A root, B child of A, C child
\* of B, and the item x in B; a job, a story and a note.
FolderRow(id, parent) == [id |-> id, user_id |-> Me, name |-> TextA, parent_id |-> parent]
ItemRow(id, folder, type) ==
  [id |-> id, user_id |-> Me, folder_id |-> folder, type |-> type,
   title |-> TextA, content |-> <<>>, tags |-> <<>>]
Stored ==
  [SignedUp EXCEPT !.prep_folders = {FolderRow(1, NULL), FolderRow(2, 1), FolderRow(3, 2)},
                   !.prep_items = {[ItemRow(1, 2, "story") EXCEPT !.title = TextB]},
                   !.jobs = {[id |-> 1, user_id |-> Me, role |-> TextA, company |-> TextA]},
                   !.stories = {[id |-> 1, user_id |-> Me, title |-> TextA, tags |-> <<>>]},
                   !.notes = {[id |-> 1, user_id |-> Me, title |-> TextA,
                               content |-> TextA, tags |-> <<>>]}]

\* The fresh id of each table, after the rows of d.
FreshIds(d) ==
  [t \in Tables |-> IF t = "profiles" \/ d[t] = {} THEN 1
                    ELSE 1 + Cardinality(d[t])]

\* ------------------------------------- Dashboard, Stories and Notes
\* fetchJobs, fetchStories, fetchNotes up to the await: select('*') with no
\* filter of its own.
FetchRequest(handler, table) ==
  Request(handler,
          [kind |-> "fetch", table |-> table, table2 |-> "none", eqUser |-> FALSE],
          NoRow)

\* fetchJobs, fetchStories, fetchNotes after the await.
FetchResumed(handler) ==
  \E i \in 1..Len(inflight) :
    LET req == inflight[i] IN
    /\ req.h = handler /\ req.phase = "answered"
    /\ IF req.res.error
       THEN /\ lastStep' = Step(handler, "error")
            /\ UNCHANGED items
       ELSE /\ items' = RowsToArray(req.res.data)
            /\ lastStep' = Quiet
    /\ isLoading' = FALSE
    /\ inflight' = Without(inflight, i)
    /\ UNCHANGED <<dbVars, treeVars, formVars, page, nextId, selectedFolderId,
                   isModalOpen, modalMode, editingFolder, editingItem, folderName>>
    /\ Settling

\* handleDelete of a page up to its await: confirm, then the delete call.
DeleteAsked(handler, table, id, answer) ==
  /\ IF GoesOn(answer)
     THEN /\ CanCall
          /\ inflight' = Append(inflight,
               Request(handler, [kind |-> "delete", table |-> table, id |-> id], NoRow))
     ELSE UNCHANGED inflight
  /\ lastStep' = Confirmed(handler, answer)
  /\ UNCHANGED <<dbVars, treeVars, formVars, page, prepVars, nextId>>
  /\ Acting

\* handleDelete of a page after its await: the toast, then the page's fetch.
DeleteResumed(handler, table, fetcher) ==
  \E i \in 1..Len(inflight) :
    LET req == inflight[i] IN
    /\ req.h = handler /\ req.phase = "answered"
    /\ IF req.res.error
       THEN /\ lastStep' = Step(handler, "error")
            /\ inflight' = Without(inflight, i)
       ELSE /\ lastStep' = Step(handler, "success")
            /\ inflight' = Append(Without(inflight, i), FetchRequest(fetcher, table))
    /\ UNCHANGED <<dbVars, treeVars, formVars, page, prepVars, nextId>>
    /\ Settling

\* The job form's draft: role: '', company: ''.
EmptyJobForm == [role |-> <<>>, company |-> <<>>]

ResumeFetchJobs == page = "Dashboard" /\ FetchResumed("fetchJobs")

\* Dashboard handleOpenModal(job?): Add Job, or the pencil of a listed job.
DashboardHandleOpenModal ==
  \E job \in {NoRow} \cup {j \in Range(items) : ~isLoading} :
    /\ page = "Dashboard" /\ ~isModalOpen
    /\ editingItem' = job
    /\ formData' = IF job = NoRow THEN EmptyJobForm
                   ELSE [role |-> job.role, company |-> job.company]
    /\ isModalOpen' = TRUE
    /\ lastStep' = Quiet
    /\ UNCHANGED <<dbVars, treeVars, tagInput, page, inflight, nextId, items, isLoading,
                   selectedFolderId, modalMode, editingFolder, folderName>>
    /\ Acting

\* Dashboard handleCloseModal.
DashboardHandleCloseModal ==
  /\ page = "Dashboard" /\ isModalOpen
  /\ isModalOpen' = FALSE
  /\ editingItem' = NoRow
  /\ lastStep' = Quiet
  /\ UNCHANGED <<dbVars, treeVars, formVars, page, inflight, nextId, items, isLoading,
                 selectedFolderId, modalMode, editingFolder, folderName>>
  /\ Acting

\* onChange of the Role and Company fields.
SetRoleOrCompany ==
  \E field \in {"role", "company"}, text \in FormTexts :
    /\ page = "Dashboard" /\ isModalOpen
    /\ formData' = [formData EXCEPT ![field] = text]
    /\ lastStep' = Quiet
    /\ UNCHANGED <<dbVars, treeVars, tagInput, page, prepVars, inflight, nextId>>
    /\ Acting

\* .update({ ...formData, updated_at }): every column of the job form.
JobPatch(form) == form

\* Dashboard handleSubmit up to its await.
DashboardHandleSubmit ==
  /\ page = "Dashboard" /\ isModalOpen
  /\ IF Blank(formData.role) \/ Blank(formData.company)
     THEN /\ lastStep' = Step("handleSubmit", "error")
          /\ UNCHANGED inflight
     ELSE /\ CanCall
          /\ editingItem = NoRow => CanInsert("jobs")
          /\ inflight' = Append(inflight,
               Request("handleSubmit",
                       IF editingItem # NoRow
                       THEN [kind |-> "update", table |-> "jobs", id |-> editingItem.id,
                             patch |-> JobPatch(formData)]
                       ELSE [kind |-> "insert", table |-> "jobs", returning |-> FALSE,
                             row |-> [id |-> NULL, user_id |-> Me, role |-> formData.role,
                                      company |-> formData.company]],
                       NoRow))
          /\ lastStep' = Step("handleSubmit", "none")
  /\ UNCHANGED <<dbVars, treeVars, formVars, page, prepVars, nextId>>
  /\ Acting

\* Dashboard handleSubmit after its await.
DashboardResumeSubmit ==
  \E i \in 1..Len(inflight) :
    LET req == inflight[i] IN
    /\ page = "Dashboard"
    /\ req.h = "handleSubmit" /\ req.phase = "answered"
    /\ IF req.res.error
       THEN /\ lastStep' = Step("handleSubmit", "error")
            /\ inflight' = Without(inflight, i)
            /\ UNCHANGED <<isModalOpen, editingItem>>
       ELSE /\ lastStep' = Step("handleSubmit", "success")
            /\ isModalOpen' = FALSE
            /\ editingItem' = NoRow
            /\ inflight' = Append(Without(inflight, i), FetchRequest("fetchJobs", "jobs"))
    /\ UNCHANGED <<dbVars, treeVars, formVars, page, nextId, items, isLoading,
                   selectedFolderId, modalMode, editingFolder, folderName>>
    /\ Settling

\* Dashboard handleDelete(job.id), from the bin of a listed job.
DashboardHandleDelete ==
  \E job \in Range(items), answer \in BOOLEAN :
    /\ page = "Dashboard" /\ ~isLoading /\ ~isModalOpen
    /\ DeleteAsked("handleDelete", "jobs", job.id, answer)
DashboardResumeDelete ==
  page = "Dashboard" /\ DeleteResumed("handleDelete", "jobs", "fetchJobs")

ResumeFetchStories == page = "Stories" /\ FetchResumed("fetchStories")
\* Stories handleDelete(story.id), from the bin of a listed story.
StoriesHandleDelete ==
  \E story \in Range(items), answer \in BOOLEAN :
    /\ page = "Stories" /\ ~isLoading
    /\ DeleteAsked("handleDelete", "stories", story.id, answer)
StoriesResumeDelete ==
  page = "Stories" /\ DeleteResumed("handleDelete", "stories", "fetchStories")

ResumeFetchNotes == page = "Notes" /\ FetchResumed("fetchNotes")
\* Notes handleDelete(note.id), from the bin of a listed note.
NotesHandleDelete ==
  \E note \in Range(items), answer \in BOOLEAN :
    /\ page = "Notes" /\ ~isLoading /\ ~isModalOpen
    /\ DeleteAsked("handleDelete", "notes", note.id, answer)
NotesResumeDelete ==
  page = "Notes" /\ DeleteResumed("handleDelete", "notes", "fetchNotes")

\* A page mounts: the useState initial values, and the fetch of its effect is
\* on its way.
Mounted(p) ==
  /\ page = p
  /\ items = <<>>
  /\ isLoading = TRUE
  /\ selectedFolderId = NULL
  /\ isModalOpen = FALSE
  /\ modalMode = "folder"
  /\ editingFolder = NoRow
  /\ editingItem = NoRow
  /\ folderName = <<>>
  /\ tagInput = <<>>
  /\ timers = {}
  /\ formData = IF p = "Dashboard" THEN EmptyJobForm ELSE EmptyForm
  /\ inflight = CASE p = "Preparation" -> <<FetchDataRequest(NULL)>>
                  [] p = "Dashboard" -> <<FetchRequest("fetchJobs", "jobs")>>
                  [] p = "Stories" -> <<FetchRequest("fetchStories", "stories")>>
                  [] p = "Notes" -> <<FetchRequest("fetchNotes", "notes")>>
  /\ actsPending = 0
  /\ lastStep = Quiet

Pages == {"Preparation", "Dashboard", "Stories", "Notes"}

InitApp ==
  /\ TreeIdle
  /\ db \in {SignedUp, Stored}
  /\ nextId = FreshIds(db)
  /\ tablesInUse = {}
  /\ lastCall = NoCall
  /\ \E p \in Pages : Mounted(p)

AppNext ==
  \/ Serve
  \/ ResumeFetchData
  \/ CreateRootFolder
  \/ ResumeCreateRootFolder
  \/ ToggleFolder
  \/ SelectFolder
  \/ HandleOpenFolderModal
  \/ HandleOpenItemModal
  \/ HandleCloseModal
  \/ SetFolderName
  \/ SetTitle
  \/ HandleSaveFolder
  \/ ResumeSaveFolder
  \/ HandleSaveItem
  \/ ResumeSaveItem
  \/ HandleDeleteFolder
  \/ ResumeDeleteFolder
  \/ HandleDeleteItem
  \/ ResumeDeleteItem
  \/ ResumeFetchJobs
  \/ DashboardHandleOpenModal
  \/ DashboardHandleCloseModal
  \/ SetRoleOrCompany
  \/ DashboardHandleSubmit
  \/ DashboardResumeSubmit
  \/ DashboardHandleDelete
  \/ DashboardResumeDelete
  \/ ResumeFetchStories
  \/ StoriesHandleDelete
  \/ StoriesResumeDelete
  \/ ResumeFetchNotes
  \/ NotesHandleDelete
  \/ NotesResumeDelete

SpecApp == InitApp /\ [][AppNext]_vars

\* ------------------------------------------- the Notes page on its own
\* Notes handleOpenModal(note?): New Note, or the pencil of a listed note.
NotesHandleOpenModal ==
  \E note \in {NoRow} \cup {n \in Range(items) : ~isLoading} :
    /\ page = "Notes" /\ ~isModalOpen
    /\ editingItem' = note
    /\ formData' = IF note = NoRow THEN EmptyForm
                   ELSE [title |-> note.title, content |-> note.content, tags |-> note.tags]
    /\ tagInput' = <<>>
    /\ isModalOpen' = TRUE
    /\ lastStep' = Quiet
    /\ UNCHANGED <<dbVars, treeVars, page, inflight, nextId, items, isLoading,
                   selectedFolderId, modalMode, editingFolder, folderName>>
    /\ Acting

\* Notes handleCloseModal, from Cancel or the modal's close: the two setters
\* and fetchNotes().
NotesHandleCloseModal ==
  /\ page = "Notes" /\ isModalOpen
  /\ CanCall
  /\ isModalOpen' = FALSE
  /\ editingItem' = NoRow
  /\ inflight' = Append(inflight, FetchRequest("fetchNotes", "notes"))
  /\ lastStep' = Quiet
  /\ UNCHANGED <<dbVars, treeVars, formVars, page, nextId, items, isLoading,
                 selectedFolderId, modalMode, editingFolder, folderName>>
  /\ Acting

\* onChange of the note's title field.
NotesSetTitle ==
  \E text \in FormTexts \cup {TextB} :
    /\ page = "Notes" /\ isModalOpen
    /\ formData' = [formData EXCEPT !.title = text]
    /\ lastStep' = Quiet
    /\ UNCHANGED <<dbVars, treeVars, tagInput, page, prepVars, inflight, nextId>>
    /\ Acting

\* autoSave's .update({ title, content, tags, updated_at }).eq('id', noteId)
AutoSaveCall(noteId, data) ==
  [kind |-> "update", table |-> "notes", id |-> noteId,
   patch |-> [title |-> data.title, content |-> data.content, tags |-> data.tags]]

\* A timeout of the autosave effect runs out: autoSave(editingNote.id, formData),
\* with the note and the form contents of the render that set it, up to its await.
NotesAutoSave ==
  \E t \in timers :
    /\ page = "Notes"
    /\ timers' = timers \ {t}
    /\ IF Blank(t.data.title)
       THEN UNCHANGED inflight
       ELSE /\ CanCall
            /\ inflight' = Append(inflight,
                 Request("autoSave", AutoSaveCall(t.noteId, t.data), NoRow))
    /\ lastStep' = Quiet
    /\ UNCHANGED <<dbVars, treeVars, formVars, page, prepVars, nextId>>
    /\ UserActs

\* autoSave called by the timer, after its await: catch { toast.error(...) }.
NotesResumeAutoSave ==
  \E i \in 1..Len(inflight) :
    LET req == inflight[i] IN
    /\ page = "Notes"
    /\ req.h = "autoSave" /\ req.phase = "answered"
    /\ lastStep' = IF req.res.error THEN Step("autoSave", "error") ELSE Quiet
    /\ inflight' = Without(inflight, i)
    /\ UNCHANGED <<dbVars, treeVars, formVars, page, prepVars, nextId>>
    /\ Settling

\* Notes handleSubmit up to its await: of autoSave's update when a note is
\* being edited, of the insert otherwise.
NotesHandleSubmit ==
  /\ page = "Notes" /\ isModalOpen
  /\ IF Blank(formData.title)
     THEN /\ lastStep' = Step("handleSubmit", "error")
          /\ UNCHANGED inflight
     ELSE /\ CanCall
          /\ editingItem = NoRow => CanInsert("notes")
          /\ inflight' = Append(inflight,
               Request("handleSubmit",
                       IF editingItem # NoRow
                       THEN AutoSaveCall(editingItem.id, formData)
                       ELSE [kind |-> "insert", table |-> "notes", returning |-> FALSE,
                             row |-> [id |-> NULL, user_id |-> Me, title |-> formData.title,
                                      content |-> formData.content, tags |-> formData.tags]],
                       NoRow))
          /\ lastStep' = Step("handleSubmit", "none")
  /\ UNCHANGED <<dbVars, treeVars, formVars, page, prepVars, nextId>>
  /\ Acting

\* The toasts of a submit that edited a note: autoSave catches the error of its
\* update and raises its own toast, and handleSubmit goes on to its success toast.
ToastsOfEdit(error) == IF error THEN "error, success" ELSE "success"

\* Notes handleSubmit after its await.  Editing: autoSave has returned,
\* whatever the update's answer, then toast.success, handleCloseModal (with its
\* fetchNotes) and fetchNotes.  Creating: an error goes to the catch.
NotesResumeSubmit ==
  \E i \in 1..Len(inflight) :
    LET req == inflight[i] IN
    /\ page = "Notes"
    /\ req.h = "handleSubmit" /\ req.phase = "answered"
    /\ IF req.call.kind = "insert" /\ req.res.error
       THEN /\ lastStep' = Step("handleSubmit", "error")
            /\ inflight' = Without(inflight, i)
            /\ UNCHANGED <<isModalOpen, editingItem>>
       ELSE /\ lastStep' = Step("handleSubmit",
                                IF req.call.kind = "update"
                                THEN ToastsOfEdit(req.res.error) ELSE "success")
            /\ isModalOpen' = FALSE
            /\ editingItem' = NoRow
            /\ inflight' = Without(inflight, i)
                             \o <<FetchRequest("fetchNotes", "notes"),
                                  FetchRequest("fetchNotes", "notes")>>
    /\ UNCHANGED <<dbVars, treeVars, formVars, page, nextId, items, isLoading,
                   selectedFolderId, modalMode, editingFolder, folderName>>
    /\ Settling

InitNotes ==
  /\ TreeIdle
  /\ db \in {SignedUp, Stored}
  /\ nextId = FreshIds(db)
  /\ tablesInUse = {}
  /\ lastCall = NoCall
  /\ Mounted("Notes")

NotesNext ==
  \/ Serve
  \/ ResumeFetchNotes
  \/ NotesHandleOpenModal
  \/ NotesHandleCloseModal
  \/ NotesSetTitle
  \/ NotesAutoSave
  \/ NotesResumeAutoSave
  \/ NotesHandleSubmit
  \/ NotesResumeSubmit
  \/ NotesHandleDelete
  \/ NotesResumeDelete

SpecNotes == InitNotes /\ [][NotesNext]_vars

\* ------------------------------------ the Preparation page on its own
\* Folders of earlier visits, with the identifiers they got then (below NULL
\* and Nowhere, apart from the ones this run hands out): A root, B child of A.
Earlier == [SignedUp EXCEPT !.prep_folders = {FolderRow(-3, NULL), FolderRow(-2, -3)}]

\* The page after the user has opened A, selected B, created C under it (the
\* first row of this run), opened B, selected C and deleted B, and the refetch
\* has come back: A alone is stored and listed, and handleDeleteFolder has left
\* the selection on C (it clears it only when the deleted folder is the
\* selected one).
InitPrep ==
  /\ db = DbDelete(DbInsert(Earlier, Me, "prep_folders", FolderRow(1, -2)).db,
                   Me, "prep_folders", -2).db
  /\ nextId = [t \in Tables |-> IF t = "prep_folders" THEN 2 ELSE 1]
  /\ tablesInUse = {}
  /\ lastCall = NoCall
  /\ folders = RowsToArray(db.prep_folders)
  /\ expandedFolders = {-3, -2}
  /\ stack = <<>> /\ built = <<>> /\ rootFolders = <<>> /\ pc = "idle"
  /\ page = "Preparation"
  /\ items = <<>>
  /\ isLoading = FALSE
  /\ selectedFolderId = 1
  /\ isModalOpen = FALSE
  /\ modalMode = "folder"
  /\ editingFolder = NoRow
  /\ editingItem = NoRow
  /\ folderName = <<>>
  /\ FormIdle
  /\ inflight = <<>>
  /\ actsPending = 0
  /\ lastStep = Quiet

PrepNext ==
  \/ Serve
  \/ ResumeFetchData
  \/ CreateRootFolder
  \/ ResumeCreateRootFolder
  \/ ToggleFolder
  \/ SelectFolder
  \/ HandleOpenFolderModal
  \/ HandleOpenItemModal
  \/ HandleCloseModal
  \/ SetFolderName
  \/ SetTitle
  \/ HandleSaveFolder
  \/ ResumeSaveFolder
  \/ HandleSaveItem
  \/ ResumeSaveItem
  \/ HandleDeleteFolder
  \/ ResumeDeleteFolder
  \/ HandleDeleteItem
  \/ ResumeDeleteItem

SpecPrep == InitPrep /\ [][PrepNext]_vars

\* ------------------------------------------------ the content pane
\* The folder sets of the pane: A root with B below it and C below B, or with
\* B and C both below it.
PaneFolders ==
  {<<FolderRow(1, NULL), FolderRow(2, 1), FolderRow(3, 2)>>,
   <<FolderRow(1, NULL), FolderRow(2, 1), FolderRow(3, 1)>>}

\* Every item collection of up to MaxPaneItems stories and notes in those folders.
PaneItems ==
  UNION {{[k \in 1..n |-> ItemRow(k, c[k][1], c[k][2])] :
            c \in [1..n -> (1..3) \X ItemTypes]} : n \in 0..MaxPaneItems}

\* The page after fetchData has brought the folders and items and selected the root.
InitPane ==
  /\ folders \in PaneFolders
  /\ items \in PaneItems
  /\ db = [SignedUp EXCEPT !.prep_folders = Range(folders), !.prep_items = Range(items)]
  /\ nextId = FreshIds(db)
  /\ tablesInUse = {}
  /\ lastCall = NoCall
  /\ expandedFolders = {}
  /\ stack = <<>>
  /\ built = <<>>
  /\ rootFolders = <<>>
  /\ pc = "idle"
  /\ FormIdle
  /\ page = "Preparation"
  /\ isLoading = FALSE
  /\ selectedFolderId = 1
  /\ isModalOpen = FALSE
  /\ modalMode = "folder"
  /\ editingFolder = NoRow
  /\ editingItem = NoRow
  /\ folderName = <<>>
  /\ inflight = <<>>
  /\ actsPending = 0
  /\ lastStep = Quiet

PaneNext ==
  \/ SelectFolder
  \/ ToggleFolder

SpecPane == InitPane /\ [][PaneNext]_vars

\* ------------------------------------------- the tree as it is rendered
\* The page after fetchData has brought the folders (A with B below it and C
\* below B or beside it) and an item or none, and selected the root; the first
\* render with them is due.
InitView ==
  /\ folders \in PaneFolders
  /\ items \in {<<>>, <<ItemRow(1, 2, "story")>>}
  /\ db = [SignedUp EXCEPT !.prep_folders = Range(folders), !.prep_items = Range(items)]
  /\ nextId = FreshIds(db)
  /\ tablesInUse = {}
  /\ lastCall = NoCall
  /\ expandedFolders = {}
  /\ stack = <<>>
  /\ built = <<>>
  /\ rootFolders = <<>>
  /\ pc = "idle"
  /\ FormIdle
  /\ page = "Preparation"
  /\ isLoading = FALSE
  /\ selectedFolderId = 1
  /\ isModalOpen = FALSE
  /\ modalMode = "folder"
  /\ editingFolder = NoRow
  /\ editingItem = NoRow
  /\ folderName = <<>>
  /\ inflight = <<>>
  /\ actsPending = 0
  /\ lastStep = Quiet

ViewNext == Render \/ BuildCall \/ BuildReturn \/ ToggleFolder \/ SelectFolder

SpecView == InitView /\ [][ViewNext]_vars

\* C2: the content pane lists exactly the items whose folder_id is the selected
\* folder id, each once and in the collection's order; an item of a folder
\* below the selected one is never listed; a story and a note of the same
\* folder are listed or left out together.
IsBelow(folderId, above) ==
  above # NULL /\ \E n \in 1..Len(folders) : Up(folderId, n) = above
C2_PaneListsItemsOfSelectedFolder ==
  page = "Preparation" =>
    /\ \A k \in 1..Len(items) :
         Includes(selectedFolderItems, items[k]) <=> items[k].folder_id = selectedFolderId
    /\ Len(selectedFolderItems) =
         Cardinality({k \in 1..Len(items) : items[k].folder_id = selectedFolderId})
    /\ \A x \in Range(items) :
         IsBelow(x.folder_id, selectedFolderId) => ~Includes(selectedFolderItems, x)
    /\ \A x, y \in Range(items) :
         x.folder_id = y.folder_id =>
           (Includes(selectedFolderItems, x) <=> Includes(selectedFolderItems, y))
\* The user has selected folder B, which holds a story and a note, both
\* listed, while an item of a folder below B is not.
C2_Witness ==
  /\ page = "Preparation"
  /\ selectedFolderId = 2
  /\ \E x, y \in Range(selectedFolderItems) : x.type = "story" /\ y.type = "note"
  /\ \E z \in Range(items) :
       IsBelow(z.folder_id, selectedFolderId) /\ ~Includes(selectedFolderItems, z)

\* ---------------------------------------------------- claims on the pages
\* The parent chain of a stored folder, n steps up.
RECURSIVE DbUp(_, _, _)
DbUp(d, x, n) ==
  IF n = 0 THEN x
  ELSE LET hit == {f \in d.prep_folders : f.id = x} IN
       IF hit = {} THEN Nowhere ELSE DbUp(d, (CHOOSE f \in hit : TRUE).parent_id, n - 1)
\* F and the stored folders below F.
Subtree(d, F) ==
  {F} \cup {f.id : f \in {g \in d.prep_folders :
               \E n \in 1..Cardinality(d.prep_folders) : DbUp(d, g.id, n) = F}}

\* C3: when the row store answers handleDeleteFolder's delete of F without
\* error, the stored folders become those outside F's subtree, the stored
\* items those whose folder is outside it, and no other table changes.
C3_DeleteRemovesSubtreeAndItsItemsOnly ==
  [][\A i \in 1..Len(inflight) :
       (/\ inflight[i].h = "handleDeleteFolder"
        /\ inflight[i].phase = "sent"
        /\ Len(inflight') = Len(inflight)
        /\ inflight'[i].phase = "answered"
        /\ ~inflight'[i].res.error)
       => LET gone == Subtree(db, inflight[i].call.id) IN
          /\ db'.prep_folders = {f \in db.prep_folders : f.id \notin gone}
          /\ db'.prep_items = {x \in db.prep_items : x.folder_id \notin gone}
          /\ \A t \in Tables \ {"prep_folders", "prep_items"} : db'[t] = db[t]]_vars
\* The delete of F has been answered without error; the page still shows a
\* folder below F, a folder below that one and an item in a folder below F,
\* and none of them is stored any more.
C3_Witness ==
  \E i \in 1..Len(inflight) :
    LET F == inflight[i].call.id IN
    /\ inflight[i].h = "handleDeleteFolder"
    /\ inflight[i].phase = "answered"
    /\ ~inflight[i].res.error
    /\ F \notin RowIds(db, "prep_folders")
    /\ \E f, g \in Range(folders), x \in Range(items) :
         /\ f.parent_id = F /\ g.parent_id = f.id /\ x.folder_id = f.id
         /\ {f.id, g.id} \cap RowIds(db, "prep_folders") = {}
         /\ x.id \notin RowIds(db, "prep_items")

IsPrefix(a, b) == Len(a) <= Len(b) /\ SubSeq(b, 1, Len(a)) = a

\* A step in which the form's submit handler runs: it is the step's handler
\* and no answered call is taken up.
Submitting(handler) == lastStep'.handler = handler /\ IsPrefix(inflight, inflight')
BlankSubmit ==
  \/ /\ page = "Dashboard"
     /\ Submitting("handleSubmit")
     /\ Trim(formData.role) = <<>> \/ Trim(formData.company) = <<>>
  \/ /\ page = "Preparation"
     /\ Submitting("handleSaveFolder")
     /\ Trim(folderName) = <<>>
  \/ /\ page = "Preparation"
     /\ Submitting("handleSaveItem")
     /\ Trim(formData.title) = <<>> \/ selectedFolderId = NULL
\* The required fields of a pending insert or update are not blank.
NoBlankCall ==
  \A i \in 1..Len(inflight) :
    LET call == inflight[i].call
        sent == IF call.kind = "insert" THEN call.row ELSE call.patch
    IN call.kind \in {"insert", "update"} =>
         /\ call.table = "jobs" => Trim(sent.role) # <<>> /\ Trim(sent.company) # <<>>
         /\ call.table = "prep_folders" => Trim(sent.name) # <<>>
         /\ call.table = "prep_items" => Trim(sent.title) # <<>>
         /\ call.table = "prep_items" /\ call.kind = "insert" => sent.folder_id # NULL

\* C8: no pending insert or update carries a blank role, company, folder name
\* or item title, or an item without folder; and a submit of the job form, the
\* folder form or the item form with such a field blank (or no folder
\* selected) issues no call, shows an error toast, and leaves the row store,
\* the form's fields and the open modal as they were.
C8_BlankSubmitIsRejected ==
  /\ []NoBlankCall
  /\ [][BlankSubmit =>
          /\ inflight' = inflight
          /\ db' = db
          /\ lastStep'.toast = "error"
          /\ UNCHANGED <<formData, tagInput, folderName, isModalOpen, modalMode,
                         editingFolder, editingItem>>]_vars
\* The job form was submitted with a blank role: the error toast is up, the
\* modal is open with the draft as typed, nothing is pending or stored.
C8_Witness ==
  /\ page = "Dashboard"
  /\ lastStep = Step("handleSubmit", "error")
  /\ isModalOpen
  /\ formData = [role |-> <<" ">>, company |-> <<"a">>]
  /\ inflight = <<>>
  /\ db.jobs = {}

\* A step that takes up the answered call i.
TakesUp(i) ==
  /\ ~IsPrefix(inflight, inflight')
  /\ Len(inflight') \in {Len(inflight) - 1, Len(inflight)}
  /\ SubSeq(inflight', 1, Len(inflight) - 1) = Without(inflight, i)

\* C9: when a Preparation handler takes up a call that was answered with an
\* error, it shows an error toast, issues nothing further, and leaves
\* folders, items, the selected folder and the modal's open state unchanged.
C9_FailedCallLeavesClientState ==
  [][\A i \in 1..Len(inflight) :
       (/\ page = "Preparation"
        /\ inflight[i].phase = "answered"
        /\ inflight[i].res.error
        /\ TakesUp(i))
       => /\ lastStep' = Step(inflight[i].h, "error")
          /\ inflight' = Without(inflight, i)
          /\ UNCHANGED <<folders, items, selectedFolderId, isModalOpen>>]_vars
\* The rename of a folder failed: the error toast is up and the folder form
\* is still open on that folder, with the name as typed.
C9_Witness ==
  /\ page = "Preparation"
  /\ lastStep = Step("handleSaveFolder", "error")
  /\ isModalOpen /\ modalMode = "folder"
  /\ editingFolder # NoRow
  /\ Trim(folderName) # <<>>
  /\ inflight = <<>>

\* The delete calls that have gone out and are not yet answered.
SentDeletes(calls) ==
  Cardinality({i \in 1..Len(calls) :
                 calls[i].call.kind = "delete" /\ calls[i].phase = "sent"})

\* C10: a step that sends a delete call is a step of a delete handler in which
\* confirm() was answered yes; a step in which confirm() was answered no sends
\* nothing and leaves the row store and the page's state unchanged.
C10_DeleteOnlyAfterConfirm ==
  [][/\ SentDeletes(inflight') > SentDeletes(inflight) =>
          /\ lastStep'.confirmed = "yes"
          /\ lastStep'.handler = inflight'[Len(inflight')].h
          /\ inflight' = Append(inflight, inflight'[Len(inflight')])
     /\ lastStep'.confirmed = "no" =>
          /\ inflight' = inflight
          /\ db' = db
          /\ UNCHANGED <<treeVars, formVars, prepVars>>]_vars
\* The user has said yes to deleting a folder and the delete call is out.
C10_Witness ==
  /\ lastStep = Confirmed("handleDeleteFolder", TRUE)
  /\ Len(inflight) = 1
  /\ inflight[1].call.kind = "delete"
  /\ inflight[1].phase = "sent"

\* The insert and update calls of handleSaveItem that are on their way.
SentItemCalls(kind) ==
  {i \in 1..Len(inflight) :
     /\ inflight[i].phase = "sent"
     /\ inflight[i].call.kind = kind
     /\ inflight[i].call.table = "prep_items"}

\* C12: every stored item is a story or a note; an item insert sent by the item
\* form carries the kind of the open modal; a row that appears in prep_items
\* has the kind of an insert that was on its way; and no step changes the type
\* or the folder_id of a stored item.
C12_ItemKindAndFolderAreFixed ==
  /\ [](\A x \in db.prep_items : x.type \in ItemTypes)
  /\ [][/\ (Len(inflight') = Len(inflight) + 1
            /\ Len(inflight') \in SentItemCalls("insert")')
           => /\ modalMode \in ItemTypes
              /\ inflight'[Len(inflight')].call.row.type = modalMode
        /\ \A y \in db'.prep_items :
             IF y.id \in RowIds(db, "prep_items")
             THEN \E x \in db.prep_items :
                    x.id = y.id /\ x.type = y.type /\ x.folder_id = y.folder_id
             ELSE \E i \in SentItemCalls("insert") :
                    inflight[i].call.row.type = y.type]_vars
\* An edit of the stored story has been saved: its title is the one typed, it
\* is still a story and still in folder B.
C12_Witness ==
  /\ \E i \in 1..Len(inflight) :
       /\ inflight[i].h = "handleSaveItem"
       /\ inflight[i].call.kind = "update"
       /\ inflight[i].phase = "answered"
       /\ ~inflight[i].res.error
  /\ [ItemRow(1, 2, "story") EXCEPT !.title = TextA] \in db.prep_items
  /\ nextId["prep_items"] = 2

\* C13 (as stated): every folder the page holds that is stored (created, not
\* deleted) is visible in the tree.
C13_AsStated ==
  (page = "Preparation" /\ ~isLoading) =>
    \A f \in Range(folders) :
      f.id \in RowIds(db, "prep_folders") => f.id \in VisibleIds

\* C13 (amended): a folder is visible exactly when it is a root or its parent is
\* visible and expanded; a folder that comes into the store is collapsed;
\* the expanded set changes only by the toggle of one visible folder that has
\* children, which stays visible; and an answered delete of a folder leaves
\* neither the folder, nor a folder below it, nor an item of those in the store.
C13_VisibleUnderExpandedAncestors ==
  /\ [](page = "Preparation" =>
          \A f \in Range(folders) :
            f.id \in VisibleIds <=>
              \/ f.parent_id = NULL
              \/ f.parent_id \in VisibleIds /\ f.parent_id \in expandedFolders)
  /\ [][/\ \A f \in db'.prep_folders :
             f.id \notin RowIds(db, "prep_folders") => f.id \notin expandedFolders'
        /\ expandedFolders' # expandedFolders =>
             \E id \in VisibleIds :
               /\ ChildrenOf(id) # <<>>
               /\ expandedFolders' = (expandedFolders \ {id}) \cup ({id} \ expandedFolders)
               /\ folders' = folders
               /\ id \in VisibleIds'
        /\ \A i \in 1..Len(inflight) :
             (/\ inflight[i].h = "handleDeleteFolder"
              /\ inflight[i].phase = "sent"
              /\ Len(inflight') = Len(inflight)
              /\ inflight'[i].phase = "answered"
              /\ ~inflight'[i].res.error)
             => /\ RowIds(db', "prep_folders") \cap Subtree(db, inflight[i].call.id) = {}
                /\ \A x \in db'.prep_items :
                     x.folder_id \notin Subtree(db, inflight[i].call.id)]_vars
\* A folder created on the page under the root is stored and in the page's
\* list, yet not visible: the root, which is visible, is not expanded.
C13_Witness ==
  /\ page = "Preparation" /\ ~isLoading
  /\ nextId["prep_folders"] = 3
  /\ \E f \in Range(folders) :
       /\ f.id \in RowIds(db, "prep_folders")
       /\ f.parent_id \in VisibleIds
       /\ f.parent_id \notin expandedFolders
       /\ f.id \notin VisibleIds

\* The selection names a folder of the page's list, or none.
SelectionListed ==
  selectedFolderId = NULL \/ \E f \in Range(folders) : f.id = selectedFolderId

\* C23 (as stated): on the Preparation page, once every call is answered and
\* taken up, the selected folder is none or a folder of the page's list; it
\* does not stay on a folder that went with the delete of a folder above it.
C23_AsStated ==
  (page = "Preparation" /\ ~isLoading /\ inflight = <<>>) => SelectionListed
\* C23, the part that holds: the delete of the selected folder itself clears
\* the selection.
C23_DeleteOfSelectedClearsSelection ==
  [][\A i \in 1..Len(inflight) :
       (/\ page = "Preparation"
        /\ inflight[i].h = "handleDeleteFolder"
        /\ inflight[i].phase = "answered" /\ ~inflight[i].res.error
        /\ TakesUp(i)
        /\ inflight[i].snap.selectedFolderId = inflight[i].call.id)
       => selectedFolderId' = NULL]_vars

\* ------------------------------------------- two sessions of one user
\* The rows both sessions have loaded, and what a session may have made of
\* them in its form before saving.
LoadedItem == [ItemRow(1, 2, "story") EXCEPT !.title = TextB]
LoadedJob == [id |-> 1, user_id |-> Me, role |-> TextA, company |-> TextA]
LoadedFolder == FolderRow(2, 1)
ItemDrafts ==
  {[title |-> t, content |-> c, tags |-> LoadedItem.tags] :
     t \in {TextA, TextB}, c \in {<<>>, TextA}}
JobDrafts == {[role |-> r, company |-> c] : r \in {TextA, TextB}, c \in {TextA, TextB}}
FolderDrafts == {[name |-> n] : n \in {TextA, TextB}}

\* The update a session's save handler sends for its draft: handleSaveItem,
\* Dashboard handleSubmit, handleSaveFolder, each with .eq('id', loaded id).
SessionSave(session, table, draft) ==
  Request(CASE table = "prep_items" -> "handleSaveItem"
            [] table = "jobs" -> "handleSubmit"
            [] table = "prep_folders" -> "handleSaveFolder",
          [kind |-> "update", table |-> table,
           id |-> CASE table = "prep_items" -> LoadedItem.id
                    [] table = "jobs" -> LoadedJob.id
                    [] table = "prep_folders" -> LoadedFolder.id,
           patch |-> CASE table = "prep_items" -> ItemPatch(draft)
                       [] table = "jobs" -> JobPatch(draft)
                       [] table = "prep_folders" -> FolderPatch(draft.name)],
          [session |-> session, draft |-> draft])

DraftsOf(table) ==
  CASE table = "prep_items" -> ItemDrafts
    [] table = "jobs" -> JobDrafts
    [] table = "prep_folders" -> FolderDrafts

\* Two sessions have loaded the same row, edited it and pressed save: both
\* updates are on their way to the row store.
InitSessions ==
  /\ TreeIdle
  /\ FormIdle
  /\ db = Stored
  /\ nextId = FreshIds(db)
  /\ tablesInUse = {}
  /\ lastCall = NoCall
  /\ page = "none"
  /\ items = <<>>
  /\ isLoading = TRUE
  /\ selectedFolderId = NULL
  /\ isModalOpen = FALSE
  /\ modalMode = "folder"
  /\ editingFolder = NoRow
  /\ editingItem = NoRow
  /\ folderName = <<>>
  /\ \E table \in {"prep_items", "jobs", "prep_folders"} :
       \E first \in DraftsOf(table), second \in DraftsOf(table) :
         inflight = <<SessionSave(1, table, first), SessionSave(2, table, second)>>
  /\ actsPending = 0
  /\ lastStep = Quiet

SessionsNext == Serve

SpecSessions == InitSessions /\ [][SessionsNext]_vars

\* The stored row a call addresses.
RowOf(d, call) == CHOOSE r \in d[call.table] : r.id = call.id
\* The pending saves that have been answered without error.
Saved == {i \in 1..Len(inflight) :
            inflight[i].phase = "answered" /\ ~inflight[i].res.error}

\* C14: the row store would accept either session's pending save whatever the
\* other has written (no version check); and when a save is stored, the row
\* carries every column of that session's draft and, in its other columns,
\* what it carried before, so after two successful saves the row is the record
\* of the save that reached the store last.
C14_LastWriteWins ==
  /\ [](\A i \in 1..Len(inflight) :
          inflight[i].phase = "sent" => ~Served(inflight[i]).res.error)
  /\ [][\A i \in 1..Len(inflight) :
          (/\ inflight[i].phase = "sent"
           /\ inflight'[i].phase = "answered"
           /\ ~inflight'[i].res.error)
          => LET call == inflight[i].call
                 draft == inflight[i].snap.draft
                 before == RowOf(db, call)
                 after == RowOf(db', call)
             IN /\ \A c \in DOMAIN draft : after[c] = draft[c]
                /\ \A c \in DOMAIN before \ DOMAIN draft : after[c] = before[c]
                /\ db' = [db EXCEPT ![call.table] = (@ \ {before}) \cup {after}]]_vars
\* Both sessions' saves of the item are stored; the drafts differ in title and
\* in content, and the row carries the title and content of one of them only.
C14_Witness ==
  /\ Saved = {1, 2}
  /\ inflight[1].call.table = "prep_items"
  /\ inflight[1].snap.draft.title # inflight[2].snap.draft.title
  /\ inflight[1].snap.draft.content # inflight[2].snap.draft.content
  /\ \E r \in db.prep_items :
       /\ r.id = LoadedItem.id
       /\ r.title = inflight[1].snap.draft.title
       /\ r.content = inflight[1].snap.draft.content

\* ------------------------------ the Preparation page, overlapping calls
\* The deletes the user can ask for on the page that shows Stored with A and B
\* open and B selected.
OverlapDeletes ==
  {[h |-> "handleDeleteFolder", table |-> "prep_folders", id |-> f] : f \in 1..3}
  \cup {[h |-> "handleDeleteItem", table |-> "prep_items", id |-> 1]}

\* The page shows Stored, with A and B open and B selected.  The user has
\* deleted C and handleDeleteFolder has gone on to its fetchData, which is
\* on its way; the list still shows what it showed, and the user has
\* confirmed a second delete, which is on its way too.  No call fails.
InitOverlap ==
  /\ db = DbDelete(Stored, Me, "prep_folders", 3).db
  /\ nextId = FreshIds(Stored)
  /\ tablesInUse = {}
  /\ lastCall = NoCall
  /\ folders = RowsToArray(Stored.prep_folders)
  /\ items = RowsToArray(Stored.prep_items)
  /\ expandedFolders = {1, 2}
  /\ stack = <<>> /\ built = <<>> /\ rootFolders = <<>> /\ pc = "idle"
  /\ page = "Preparation"
  /\ isLoading = FALSE
  /\ selectedFolderId = 2
  /\ isModalOpen = FALSE
  /\ modalMode = "folder"
  /\ editingFolder = NoRow
  /\ editingItem = NoRow
  /\ folderName = <<>>
  /\ FormIdle
  /\ \E second \in OverlapDeletes :
       /\ inflight = <<FetchDataRequest(2),
                       Request(second.h,
                               [kind |-> "delete", table |-> second.table, id |-> second.id],
                               [selectedFolderId |-> 2])>>
       /\ lastStep = Confirmed(second.h, TRUE)
  /\ actsPending = 1

OverlapNext ==
  \/ ServeWithoutFailure
  \/ ResumeFetchData
  \/ ResumeDeleteFolder
  \/ ResumeDeleteItem
  \/ ToggleFolder
  \/ SelectFolder
  \/ HandleDeleteFolder
  \/ HandleDeleteItem

SpecOverlap == InitOverlap /\ [][OverlapNext]_vars

\* --------------------------------- claims on the Preparation page alone
\* Every stored reference to a folder is to a stored folder.
ReferencesExist(d) ==
  /\ \A i \in d.prep_items : i.folder_id \in RowIds(d, "prep_folders")
  /\ \A f \in d.prep_folders : f.parent_id = NULL \/ f.parent_id \in RowIds(d, "prep_folders")
\* The folder a create call hangs its row under.
TargetFolder(call) ==
  IF call.table = "prep_items" THEN call.row.folder_id ELSE call.row.parent_id
\* The pending call i is a create under a folder that is not stored.
CreateUnderMissingFolder(i) ==
  /\ inflight[i].call.kind = "insert"
  /\ inflight[i].call.table \in {"prep_folders", "prep_items"}
  /\ TargetFolder(inflight[i].call) # NULL
  /\ TargetFolder(inflight[i].call) \notin RowIds(db, "prep_folders")
\* The step answers the pending call i.
Answers(i) ==
  /\ inflight[i].phase = "sent"
  /\ Len(inflight') = Len(inflight)
  /\ inflight'[i].phase = "answered"

\* C16: whatever the user does on the Preparation page, every stored item is in
\* a stored folder and every stored parent_id names a stored folder; a create
\* of an item or folder under a selected folder that is no longer stored is
\* answered with an error and stores nothing.
C16_ReferencesExistAndDanglingCreateRejected ==
  /\ []ReferencesExist(db)
  /\ [][\A i \in 1..Len(inflight) :
          (Answers(i) /\ CreateUnderMissingFolder(i))
          => inflight'[i].res.error /\ db' = db]_vars
\* With C still selected after B above it was deleted, the user saved a new
\* folder: the create came back with an error, A alone is stored.
C16_Witness ==
  /\ page = "Preparation"
  /\ selectedFolderId = 1
  /\ RowIds(db, "prep_folders") = {-3}
  /\ db.prep_items = {}
  /\ \E i \in 1..Len(inflight) :
       /\ inflight[i].h = "handleSaveFolder"
       /\ inflight[i].phase = "answered"
       /\ inflight[i].call.kind = "insert"
       /\ inflight[i].call.row.parent_id = 1
       /\ inflight[i].res.error

\* ------------------------------------------- claims on the Notes page
\* The step takes up the answer to the update that a submit of an edited note sent.
EditSubmitAnswered(i) ==
  /\ page = "Notes"
  /\ inflight[i].h = "handleSubmit" /\ inflight[i].phase = "answered"
  /\ inflight[i].call.kind = "update"
  /\ inflight' # inflight
  /\ SubSeq(inflight', 1, Len(inflight) - 1) = Without(inflight, i)

\* C18 (as stated): when the update sent by saving an edited note fails, an
\* error toast is shown and no success toast, and the modal stays open on the
\* note with the draft unchanged.
C18_AsStated ==
  [][\A i \in 1..Len(inflight) :
       (EditSubmitAnswered(i) /\ inflight[i].res.error)
       => /\ lastStep'.toast = "error"
          /\ isModalOpen' /\ editingItem' = editingItem
          /\ formData' = formData]_vars
\* What the code does instead: the error toast of autoSave, then the success
\* toast, and the modal closes; the stored note is as it was.
C18_FailedEditStillClosesModal ==
  [][\A i \in 1..Len(inflight) :
       (EditSubmitAnswered(i) /\ inflight[i].res.error)
       => /\ lastStep' = Step("handleSubmit", "error, success")
          /\ ~isModalOpen' /\ editingItem' = NoRow
          /\ db' = db]_vars
\* A failed create, for comparison: the error toast alone, the modal open.
C18_FailedCreateKeepsModal ==
  [][\A i \in 1..Len(inflight) :
       (/\ page = "Notes"
        /\ inflight[i].h = "handleSubmit" /\ inflight[i].phase = "answered"
        /\ inflight[i].call.kind = "insert" /\ inflight[i].res.error
        /\ inflight' = Without(inflight, i))
       => /\ lastStep' = Step("handleSubmit", "error")
          /\ isModalOpen' /\ formData' = formData]_vars

\* ------------------------- claims on the Preparation page, overlapping calls
\* The user's stored folders and items, as the arrays a fetch returns.
StoredFolders == RowsToArray({r \in db.prep_folders : r.user_id = Me})
StoredItems == RowsToArray({r \in db.prep_items : r.user_id = Me})

\* C19 (as stated): with one session and no failing call, whenever every call
\* sent so far has been answered and taken up, the client's folders and items
\* are the stored ones, in whatever order the answers of overlapping fetches
\* were taken up.
C19_AsStated ==
  inflight = <<>> => (folders = StoredFolders /\ items = StoredItems)
\* What does hold: once every call is taken up, the lists are those of some
\* fetch, so they hold nothing that was not stored when the page was loaded.
C19_ListsAreOfSomeFetch ==
  inflight = <<>> =>
    /\ Range(folders) \subseteq Stored.prep_folders
    /\ Range(items) \subseteq Stored.prep_items

\* ------------------------------------------- claims on the rendered tree
\* C20: every node the build has made carries isExpanded exactly when its id
\* is in expandedFolders; a step that changes expandedFolders flips one id and
\* leaves the other ids, the selected folder, folders and items as they were;
\* and toggling an id twice gives the set back.
C20_ExpandedFlagFollowsSet ==
  /\ [](pc \in {"building", "done"} =>
          \A k \in 1..Len(built) : built[k].isExpanded <=> built[k].id \in expandedFolders)
  /\ [](\A id \in AllFolderIds :
          Toggled(Toggled(expandedFolders, id), id) = expandedFolders)
  /\ [][expandedFolders' # expandedFolders =>
          /\ \E id \in AllFolderIds :
               /\ (id \in expandedFolders') # (id \in expandedFolders)
               /\ expandedFolders' \ {id} = expandedFolders \ {id}
          /\ UNCHANGED <<folders, items, selectedFolderId>>]_vars
\* B was opened after A, then A was closed; the tree has been built again: three
\* nodes, B's flag set and A's not.
C20_Witness ==
  /\ pc = "done"
  /\ expandedFolders = {2}
  /\ Len(built) = 3
  /\ \E k \in 1..Len(built) : built[k].id = 2 /\ built[k].isExpanded
  /\ \E k \in 1..Len(built) : built[k].id = 1 /\ ~built[k].isExpanded

\* ------------------------------ the Preparation page, a rename under way
\* The rename of B to 'b' that handleSaveFolder has sent, with what it closed over.
RenameOfB(list) ==
  Request("handleSaveFolder",
          [kind |-> "update", table |-> "prep_folders", id |-> 2, patch |-> FolderPatch(TextB)],
          [folders |-> list, folderName |-> TextB, selectedFolderId |-> 2])

\* The page shows Stored, with A and B open and B selected; the user has opened
\* B's rename form, typed 'b' and submitted, and the update is on its way.
\* Either nothing else is pending, or the user had deleted C just before and
\* handleDeleteFolder's fetchData is still on its way, the list showing what it
\* showed.
InitRename ==
  /\ \E fetching \in BOOLEAN :
       /\ db = IF fetching THEN DbDelete(Stored, Me, "prep_folders", 3).db ELSE Stored
       /\ inflight = (IF fetching THEN <<FetchDataRequest(2)>> ELSE <<>>)
                       \o <<RenameOfB(RowsToArray(Stored.prep_folders))>>
       /\ actsPending = IF fetching THEN 1 ELSE 0
  /\ nextId = FreshIds(Stored)
  /\ tablesInUse = {}
  /\ lastCall = NoCall
  /\ folders = RowsToArray(Stored.prep_folders)
  /\ items = RowsToArray(Stored.prep_items)
  /\ expandedFolders = {1, 2}
  /\ stack = <<>> /\ built = <<>> /\ rootFolders = <<>> /\ pc = "idle"
  /\ page = "Preparation"
  /\ isLoading = FALSE
  /\ selectedFolderId = 2
  /\ isModalOpen = TRUE
  /\ modalMode = "folder"
  /\ editingFolder = FolderRow(2, 1)
  /\ editingItem = NoRow
  /\ folderName = TextB
  /\ FormIdle
  /\ lastStep = Step("handleSaveFolder", "none")

RenameNext ==
  \/ Serve
  \/ ResumeFetchData
  \/ ResumeSaveFolder
  \/ ToggleFolder
  \/ SelectFolder
  \/ HandleOpenFolderModal
  \/ HandleCloseModal
  \/ SetFolderName
  \/ HandleSaveFolder

SpecRename == InitRename /\ [][RenameNext]_vars

\* ---------------------- claims on the Preparation page, a rename under way
\* The step answers the rename i with success; the step takes that answer up.
RenameStored(i) ==
  /\ inflight[i].h = "handleSaveFolder" /\ inflight[i].call.kind = "update"
  /\ Answers(i) /\ ~inflight'[i].res.error
RenameTakenUp(i) ==
  /\ page = "Preparation"
  /\ inflight[i].h = "handleSaveFolder" /\ inflight[i].call.kind = "update"
  /\ inflight[i].phase = "answered" /\ ~inflight[i].res.error
  /\ TakesUp(i)
\* list with the name of folder id replaced.
Renamed(list, id, name) ==
  [k \in 1..Len(list) |-> IF list[k].id = id THEN [list[k] EXCEPT !.name = name] ELSE list[k]]

\* C21 (as stated): a successful rename changes only that folder's name, in the
\* store and in the page's list: every other column, folder and item, the
\* selection and the expanded set are as they were, and the listed name is the
\* stored one.
C21_AsStated ==
  [][\A i \in 1..Len(inflight) :
       /\ RenameStored(i) =>
            /\ db'.prep_folders =
                 {IF r.id = inflight[i].call.id
                  THEN [r EXCEPT !.name = inflight[i].call.patch.name] ELSE r :
                    r \in db.prep_folders}
            /\ \A t \in Tables \ {"prep_folders"} : db'[t] = db[t]
       /\ RenameTakenUp(i) =>
            /\ folders' = Renamed(folders, inflight[i].call.id, inflight[i].call.patch.name)
            /\ UNCHANGED <<items, selectedFolderId, expandedFolders>>
            /\ \A f \in Range(folders') : \A r \in db'.prep_folders :
                 (f.id = inflight[i].call.id /\ r.id = f.id) => f.name = r.name]_vars
\* C21, the part that holds: in the store the rename changes the name of that
\* folder and nothing else.
C21_StoredRenameChangesNameOnly ==
  [][\A i \in 1..Len(inflight) :
       RenameStored(i) =>
         /\ db'.prep_folders =
              {IF r.id = inflight[i].call.id
               THEN [r EXCEPT !.name = inflight[i].call.patch.name] ELSE r :
                 r \in db.prep_folders}
         /\ \A t \in Tables \ {"prep_folders"} : db'[t] = db[t]]_vars
\* C21, the part that holds: the page's list becomes the list the handler closed
\* over when it was submitted, with the name replaced; items, selection and
\* expanded set stay.
C21_ListIsRenamedSnapshot ==
  [][\A i \in 1..Len(inflight) :
       RenameTakenUp(i) =>
         /\ folders' = Renamed(inflight[i].snap.folders, inflight[i].call.id,
                               inflight[i].call.patch.name)
         /\ UNCHANGED <<items, selectedFolderId, expandedFolders>>]_vars

\* ------------------------------ the Preparation page, folders from none
\* A user who has stored no folder yet opens the page.
InitFolders ==
  /\ TreeIdle
  /\ db = SignedUp
  /\ nextId = FreshIds(db)
  /\ tablesInUse = {}
  /\ lastCall = NoCall
  /\ Mounted("Preparation")

\* createRootFolder, create under the selected folder, rename, delete, and
\* what the user does in between.
FoldersNext ==
  \/ Serve
  \/ ResumeFetchData
  \/ CreateRootFolder
  \/ ResumeCreateRootFolder
  \/ ToggleFolder
  \/ SelectFolder
  \/ HandleOpenFolderModal
  \/ HandleCloseModal
  \/ SetFolderName
  \/ HandleSaveFolder
  \/ ResumeSaveFolder
  \/ HandleDeleteFolder
  \/ ResumeDeleteFolder

SpecFolders == InitFolders /\ [][FoldersNext]_vars

\* ----------------------- claims on the Preparation page, folders from none
\* No stored folder is its own ancestor.
NoStoredCycle(d) ==
  \A f \in d.prep_folders :
    \A n \in 1..Cardinality(d.prep_folders) : DbUp(d, f.id, n) # f.id
\* The folder inserts that are on their way.
SentFolderInserts ==
  {i \in 1..Len(inflight) :
     /\ inflight[i].phase = "sent"
     /\ inflight[i].call.kind = "insert"
     /\ inflight[i].call.table = "prep_folders"}

\* C24: from no folders, the page's folder operations never store a parent
\* cycle: a folder insert is sent with parent_id null (createRootFolder) or the
\* folder selected at that moment (handleSaveFolder), a folder that appears in
\* the store has the parent_id of an insert that was on its way, and no step
\* changes the parent_id of a stored folder.
C24_NoParentCycleFromClient ==
  /\ []NoStoredCycle(db)
  /\ [][/\ (Len(inflight') = Len(inflight) + 1 /\ Len(inflight') \in SentFolderInserts')
           => inflight'[Len(inflight')].call.row.parent_id =
                IF inflight'[Len(inflight')].h = "createRootFolder"
                THEN NULL ELSE selectedFolderId
        /\ \A y \in db'.prep_folders :
             IF y.id \in RowIds(db, "prep_folders")
             THEN \E x \in db.prep_folders : x.id = y.id /\ x.parent_id = y.parent_id
             ELSE \E i \in SentFolderInserts :
                    inflight[i].call.row.parent_id = y.parent_id]_vars
\* The root was created, a folder was created under it while it was selected,
\* and the root has since been renamed: the second folder still hangs under it.
C24_Witness ==
  /\ page = "Preparation"
  /\ \E r \in db.prep_folders : r.id = 1 /\ r.parent_id = NULL /\ r.name = TextA
  /\ \E r \in db.prep_folders : r.id = 2 /\ r.parent_id = 1
  /\ \E i \in 1..Len(inflight) :
       /\ inflight[i].h = "handleSaveFolder"
       /\ inflight[i].call.kind = "update" /\ inflight[i].call.id = 1
       /\ inflight[i].phase = "answered" /\ ~inflight[i].res.error

\* ------------------------------------ claims on the Notes page, autosave
\* The columns of a note that the form edits.
FormOf(row) == [title |-> row.title, content |-> row.content, tags |-> row.tags]
\* The stored note id holds exactly data.
StoredIsForm(d, id, data) == \E r \in d.notes : r.id = id /\ FormOf(r) = data
\* No update is under way: every autoSave has run its finally { setIsSaving(false) },
\* so the edit modal of a note shows "Saved".
SavedShown ==
  /\ page = "Notes" /\ isModalOpen /\ editingItem # NoRow
  /\ \A i \in 1..Len(inflight) : inflight[i].call.kind # "update"
\* No call that is pending has failed, and the step raised no error toast.
NoFailure ==
  /\ \A i \in 1..Len(inflight) : ~inflight[i].res.error
  /\ lastStep.toast \notin {"error", "error, success"}
\* The step sent the last call of inflight'.
Sent(h, kind) ==
  /\ Len(inflight') = Len(inflight) + 1
  /\ inflight'[Len(inflight')].h = h
  /\ inflight'[Len(inflight')].call.kind = kind

\* C26 (as stated): while the edit modal of a note shows "Saved" the stored note
\* equals the form, and when the modal of a note is closed with a non-blank title
\* and no failure the stored note equals the last contents of the form.
C26_AsStated ==
  /\ [](SavedShown => StoredIsForm(db, editingItem.id, formData))
  /\ [][(/\ page = "Notes" /\ isModalOpen /\ editingItem # NoRow
         /\ ~isModalOpen'
         /\ ~Blank(formData.title)
         /\ NoFailure /\ NoFailure')
        => StoredIsForm(db', editingItem.id, formData)]_vars
\* C26, what the code does: closing clears the timeout that would have saved
\* the form, and sends nothing but the fetch.
C26_CloseSendsNoUpdate ==
  [][(page = "Notes" /\ isModalOpen /\ ~isModalOpen') =>
       /\ timers' = {}
       /\ \A i \in 1..Len(inflight') :
            inflight'[i].call.kind = "update" =>
              \E j \in 1..Len(inflight) : inflight[j] = inflight'[i]]_vars

\* C27 (as stated): while the form of the edit modal holds the note as it was
\* loaded and as it is stored, the page sends no autosave update of the note.
C27_AsStated ==
  [][(/\ page = "Notes" /\ isModalOpen /\ editingItem # NoRow
      /\ formData = FormOf(editingItem)
      /\ StoredIsForm(db, editingItem.id, formData))
     => ~Sent("autoSave", "update")]_vars
\* C27, what the code does: opening a note sets the autosave timeout at once.
C27_OpenSchedulesAutoSave ==
  [][(page = "Notes" /\ ~isModalOpen /\ isModalOpen' /\ editingItem' # NoRow) =>
       timers' = {[noteId |-> editingItem'.id, data |-> FormOf(editingItem')]}]_vars

\* C28: at most one autosave timeout is pending, and it is the one set for the
\* note and form contents of the last render (every earlier one was cleared, and
\* none is left once the modal is closed); an autosave update is sent only for the
\* note whose modal is open; and no update with a blank title is sent: a timeout
\* that runs out with a blank title leaves the pending calls as they are.
C28_OneTimerClearedOnChangeAndClose ==
  /\ [](/\ Cardinality(timers) <= 1
        /\ timers # {} =>
             /\ isModalOpen /\ editingItem # NoRow
             /\ timers = {[noteId |-> editingItem.id, data |-> formData]})
  /\ [][/\ Sent("autoSave", "update") =>
             /\ isModalOpen /\ editingItem # NoRow
             /\ inflight'[Len(inflight')].call.id = editingItem.id
        /\ \A i \in 1..Len(inflight') :
             inflight'[i].call.kind = "update" => ~Blank(inflight'[i].call.patch.title)
        /\ \A t \in timers :
             (timers' = timers \ {t} /\ formData' = formData /\ editingItem' = editingItem
              /\ Blank(t.data.title)) => inflight' = inflight]_vars
\* The title of the open note was changed to a text no stored note has and the
\* modal was closed before the timeout ran out: no timeout is left and nothing
\* but the fetch is on its way.
C28_Witness ==
  /\ page = "Notes" /\ ~isModalOpen /\ editingItem = NoRow
  /\ formData.title = TextB
  /\ \A r \in db.notes : r.title # TextB
  /\ timers = {}
  /\ Len(inflight) = 1 /\ inflight[1].h = "fetchNotes"

\* ------------------- claims on the Preparation page, the fetch's selection
\* The fetch i has come back with folders, a root among them, and this step
\* takes it up.
FetchWithRootTakenUp(i) ==
  /\ page = "Preparation"
  /\ inflight[i].h = "fetchData"
  /\ inflight[i].phase = "answered" /\ ~inflight[i].res.error
  /\ \E f \in inflight[i].res.data : f.parent_id = NULL
  /\ TakesUp(i)
\* C29 (as stated): a fetch that completes while no folder is selected, with a
\* root among its folders, selects a root; so does the refetch that follows the
\* delete of the selected folder.
C29_AsStated ==
  [][\A i \in 1..Len(inflight) :
       (FetchWithRootTakenUp(i) /\ selectedFolderId = NULL) =>
         \E f \in inflight[i].res.data : f.parent_id = NULL /\ selectedFolderId' = f.id]_vars
\* C29, the part that holds: a fetch that was started while no folder was
\* selected, and completes while none is, selects a root.
C29_FetchStartedUnselectedSelectsRoot ==
  [][\A i \in 1..Len(inflight) :
       (/\ FetchWithRootTakenUp(i) /\ selectedFolderId = NULL
        /\ inflight[i].snap.selectedFolderId = NULL) =>
         \E f \in inflight[i].res.data : f.parent_id = NULL /\ selectedFolderId' = f.id]_vars

====
